---- MODULE Spec2Model ----
(***************************************************************************)
(* Audio watermark embedding / detection and its RSA-PSS binding to an     *)
(* artist identity (backend/watermark/embed.py, extract.py, keypairs.py,   *)
(* auth.py) together with the request handlers of backend/main.py that     *)
(* call them.                                                              *)
(*                                                                         *)
(* Representation.                                                         *)
(*  - A text (Python str) is a sequence of tokens.  A token is a record    *)
(*    whose field t names its kind: "ch" (one character), "b64" (the       *)
(*    base64 body of one signature, with its padding) or "hex" (the hex    *)
(*    digest of one sample buffer).  Concatenation of texts is \o.         *)
(*  - A signal is a record [num, den]: sample i is num[i]/den.  den = 0    *)
(*    stands for the all-NaN signal numpy produces when 0.0 is divided by  *)
(*    0.0.  Arithmetic on samples is exact rational arithmetic.            *)
(*  - RSA-PSS is symbolic: signature bytes record the signing key, the     *)
(*    signed message and the salt; a signature verifies under a public key *)
(*    exactly when that key belongs to the signing key and the message is  *)
(*    the signed one.                                                      *)
(*  - SHA-256 of a sample buffer is symbolic (the buffer itself); SHA-256  *)
(*    of a text, used for seeding, is an integer digest.                   *)
(***************************************************************************)
EXTENDS Integers, Sequences, FiniteSets, TLC

VARIABLES fs, res, made, tmpCount, reqs, srv

vars == <<fs, res, made, tmpCount, reqs, srv>>

(***************************************************************************)
(* Bounds of the model.                                                    *)
(***************************************************************************)
MaxLen == 3
SeedBits == 16
MaxTmp == 3

\* The last tick of the server's clock.
MaxTime == 2

\* How many tokens, and how many challenges, the server hands out at most.
MaxHeld == 2

(***************************************************************************)
(* Texts.                                                                  *)
(***************************************************************************)
Ch(c) == [t |-> "ch", c |-> c]

Str(cs) == [i \in 1..Len(cs) |-> Ch(cs[i])]

Abs(x) == IF x < 0 THEN -x ELSE x

Max2(a, b) == IF a < b THEN b ELSE a

RECURSIVE Gcd(_, _)
Gcd(a, b) == IF b = 0 THEN Abs(a) ELSE Gcd(b, a % b)

RECURSIVE SeqSum(_)
SeqSum(s) == IF s = <<>> THEN 0 ELSE Head(s) + SeqSum(Tail(s))

RECURSIVE SeqMaxAbs(_)
SeqMaxAbs(s) == IF s = <<>> THEN 0 ELSE Max2(Abs(Head(s)), SeqMaxAbs(Tail(s)))

RECURSIVE SeqGcd(_)
SeqGcd(s) == IF s = <<>> THEN 0 ELSE Gcd(Head(s), SeqGcd(Tail(s)))

(***************************************************************************)
(* Signals and their arithmetic.                                           *)
(***************************************************************************)
\* Sample values of the recordings a caller supplies.
Levels == (-2)..1

\* Recordings of two samples or more: one sample has no correlation with
\* anything.
Signals == UNION {[1..n -> Levels] : n \in 2..MaxLen}

Samples(s) == [num |-> s, den |-> 1]

IsNaN(y) == y.den = 0

\* y / np.max(np.abs(y)): the common denominator cancels; 0.0 / 0.0 is NaN
\* in every sample (a RuntimeWarning, no exception).
Normalize(y) == [num |-> y.num, den |-> SeqMaxAbs(y.num)]

\* The sample buffer in lowest terms: equal buffers have equal digests.
Canon(y) ==
    LET g == Gcd(SeqGcd(y.num), y.den)
    IN  IF g = 0 THEN y
        ELSE [num |-> [i \in 1..Len(y.num) |-> y.num[i] \div g], den |-> y.den \div g]

\* hashlib.sha256(y.tobytes()).hexdigest()
BufferDigest(y) == <<[t |-> "hex", num |-> Canon(y).num, den |-> Canon(y).den]>>

AlphaNum == 1
AlphaDen == 1000
ThresholdNum == 1
ThresholdDen == 1000

\* y + alpha * pattern
Mix(y, pattern) ==
    [num |-> [i \in 1..Len(y.num) |->
                 AlphaDen * y.num[i] + AlphaNum * y.den * pattern[i]],
     den |-> AlphaDen * y.den]

\* np.corrcoef(y, pattern)[0, 1] = c / sqrt(vy * vp); NaN when y holds NaN
\* or either variance is zero.
Corrcoef(y, pattern) ==
    LET n   == Len(pattern)
        sy  == SeqSum(y.num)
        sp  == SeqSum(pattern)
        syp == SeqSum([i \in 1..n |-> y.num[i] * pattern[i]])
        syy == SeqSum([i \in 1..n |-> y.num[i] * y.num[i]])
        spp == SeqSum([i \in 1..n |-> pattern[i] * pattern[i]])
        c   == n * syp - sy * sp
        vy  == n * syy - sy * sy
        vp  == n * spp - sp * sp
    IN  IF IsNaN(y) \/ vy = 0 \/ vp = 0
        THEN [nan |-> TRUE, c |-> 0, vy |-> 1, vp |-> 1]
        ELSE [nan |-> FALSE, c |-> c, vy |-> vy, vp |-> vp]

\* The variant that returns the NaN of an undefined correlation as it is.
KeepNaN(corr) == corr

\* if np.isnan(corr): corr = 0.0
NanToZero(corr) ==
    IF corr.nan THEN [nan |-> FALSE, c |-> 0, vy |-> 1, vp |-> 1] ELSE corr

\* a/b < c/d for a, c >= 0 and b, d > 0, by continued fractions.
RECURSIVE RatLess(_, _, _, _)
RatLess(a, b, c, d) ==
    IF a \div b # c \div d THEN a \div b < c \div d
    ELSE IF c % d = 0 THEN FALSE
    ELSE IF a % b = 0 THEN TRUE
    ELSE RatLess(d, c % d, b, a % b)

\* corr > threshold, threshold = 0.001
ExceedsThreshold(corr) ==
    /\ ~corr.nan
    /\ corr.c > 0
    /\ RatLess(ThresholdNum * corr.vy, ThresholdDen * corr.c,
               ThresholdDen * corr.c, ThresholdNum * corr.vp)

(***************************************************************************)
(* Seeding and the pseudo-random pattern.                                  *)
(***************************************************************************)
CharCode(c) ==
    CASE c = "a" -> 1 [] c = "b" -> 2 [] c = "c" -> 3 [] c = ":" -> 4
      [] c = "\n" -> 5 [] OTHER -> 6

RECURSIVE Sha256Int(_)
RECURSIVE TokCode(_)
TokCode(tok) ==
    CASE tok.t = "ch"  -> CharCode(tok.c)
      [] tok.t = "hex" -> 16 + ((SeqSum(tok.num) + 7 * tok.den + 3 * Len(tok.num)) % 16)
      [] tok.t = "b64" -> 32 + ((5 * tok.sig.k + 11 * tok.sig.salt + 3 * tok.slack
                                 + Sha256Int(tok.sig.msg)) % 96)
      [] OTHER -> 0

\* int(hashlib.sha256(text.encode()).hexdigest(), 16)
Sha256Int(text) ==
    IF text = <<>> THEN 7
    ELSE (Sha256Int(SubSeq(text, 1, Len(text) - 1)) * 131 + TokCode(text[Len(text)]))
             % 1000003

\* Standard normal deviates on a grid of integers.  No two neighbours of the
\* table are equal (cyclically), which is what breaking a tie relies on.
NormalTable == <<0, 1, -1, 2, 0, -1, 1, -2>>

RngStep(x) == (x * 75 + 74) % 65537

\* One deviate from generator state x after the deviate prev: two successive
\* deviates are equal with probability zero, so a tie takes the next entry.
Deviate(x, prev) ==
    LET i == (x % Len(NormalTable)) + 1
    IN  IF NormalTable[i] # prev THEN NormalTable[i]
        ELSE NormalTable[(i % Len(NormalTable)) + 1]

RECURSIVE Draws(_, _, _)
Draws(state, prev, n) ==
    IF n = 0 THEN <<>>
    ELSE <<Deviate(RngStep(state), prev)>>
             \o Draws(RngStep(state), Deviate(RngStep(state), prev), n - 1)

\* np.random.default_rng(seed).standard_normal(n)
StandardNormal(seed, n) == Draws(seed, 3, n)

\* seed = int(sha256((id_str + material).encode()).hexdigest(), 16) % 2**32
SeedOf(text) == Sha256Int(text) % (2 ^ SeedBits)

(***************************************************************************)
(* Signature service (keypairs.py, auth.py).                               *)
(***************************************************************************)
KeyIds == {1, 2}

PrivPem(k) == [fmt |-> "pkcs8", key |-> k]
PubPem(k) == [fmt |-> "spki", key |-> k]
JunkPem == [fmt |-> "junk", key |-> 0]

PrivPems == {PrivPem(k) : k \in KeyIds} \cup {JunkPem}
PubPems == {PubPem(k) : k \in KeyIds} \cup {JunkPem}

\* The private-key texts embeddings are run with: one artist's key and a text
\* that is no key.
SignerPems == {PrivPem(1), JunkPem}

Salts == {1, 2}

\* Bytes that are no signature of anything.
Garbage == [k |-> 0, msg |-> <<>>, salt |-> 0]

\* The outcome of a call: a returned value or a raised exception.
\* error is the class of the exception.
Returned(v) == [raised |-> FALSE, value |-> v, error |-> ""]
Raised == [raised |-> TRUE, value |-> FALSE, error |-> "Exception"]

\* serialization.load_pem_private_key / load_pem_public_key
load_pem_private_key(pem) ==
    IF pem.fmt = "pkcs8" THEN [ok |-> TRUE, key |-> pem.key] ELSE [ok |-> FALSE, key |-> 0]

load_pem_public_key(pem) ==
    IF pem.fmt = "spki" THEN [ok |-> TRUE, key |-> pem.key] ELSE [ok |-> FALSE, key |-> 0]

\* f"{artist_id}:{watermark_data}".encode('utf-8')
Message(artist_id, watermark_data) == artist_id \o <<Ch(":")>> \o watermark_data

\* private_key.sign(message, PSS(MGF1(SHA256), MAX_LENGTH), SHA256), the salt
\* being the random choice PSS makes
PssSign(k, message, salt) == [k |-> k, msg |-> message, salt |-> salt]

\* public_key.verify(signature_bytes, message, PSS(...), SHA256) does not raise
PssVerifies(k, signature_bytes, message) ==
    signature_bytes.k = k /\ signature_bytes.msg = message

\* base64.b64encode(signature).decode('utf-8')
b64encode(signature_bytes) == <<[t |-> "b64", sig |-> signature_bytes, slack |-> 0]>>

InAlphabet(tok) == tok.t \in {"b64", "hex"} \/ (tok.t = "ch" /\ tok.c \in {"a", "b", "c"})

RECURSIVE LeadingChars(_)
LeadingChars(text) ==
    IF text = <<>> \/ Head(text).t = "b64" THEN 0
    ELSE (IF Head(text).t = "hex" THEN 64 ELSE 1) + LeadingChars(Tail(text))

HasB64(text) == \E i \in 1..Len(text) : text[i].t = "b64"

\* base64.b64decode(signature): characters outside the alphabet are dropped,
\* the unused bits of the last character and whatever follows the padding
\* are ignored; what is left must have a decodable length.
b64decode(text) ==
    LET kept == SelectSeq(text, InAlphabet)
        lead == LeadingChars(kept)
    IN  IF kept = <<>> THEN [ok |-> TRUE, bytes |-> Garbage]
        ELSE IF kept[1].t = "b64" THEN [ok |-> TRUE, bytes |-> kept[1].sig]
        ELSE IF HasB64(kept) THEN [ok |-> lead % 4 # 3, bytes |-> Garbage]
        ELSE [ok |-> lead % 4 = 0, bytes |-> Garbage]

\* AudioKeyPair.sign_watermark: no try/except, a key that does not parse raises
sign_watermark(artist_id, watermark_data, private_key_pem, salt) ==
    LET private_key == load_pem_private_key(private_key_pem)
    IN  IF ~private_key.ok
        THEN [raised |-> TRUE, value |-> <<>>, error |-> "ValueError"]
        ELSE [raised |-> FALSE, error |-> "",
              value |-> b64encode(PssSign(private_key.key,
                                          Message(artist_id, watermark_data), salt))]

\* A variant of verify_signature without its try/except.
verify_signature_unguarded(artist_id, watermark_data, signature, public_key_pem) ==
    LET public_key == load_pem_public_key(public_key_pem)
        signature_bytes == b64decode(signature)
    IN  IF ~public_key.ok \/ ~signature_bytes.ok THEN Raised
        ELSE IF ~PssVerifies(public_key.key, signature_bytes.bytes,
                             Message(artist_id, watermark_data)) THEN Raised
        ELSE Returned(TRUE)

\* AudioKeyPair.verify_signature
verify_signature(artist_id, watermark_data, signature, public_key_pem) ==
    LET public_key == load_pem_public_key(public_key_pem)
        signature_bytes == b64decode(signature)
    IN  IF ~public_key.ok THEN Returned(FALSE)
        ELSE IF ~signature_bytes.ok THEN Returned(FALSE)
        ELSE IF ~PssVerifies(public_key.key, signature_bytes.bytes,
                             Message(artist_id, watermark_data)) THEN Returned(FALSE)
        ELSE Returned(TRUE)

create_watermark_signature(artist_id, audio_hash, private_key_pem, salt) ==
    sign_watermark(artist_id, audio_hash, private_key_pem, salt)

verify_watermark_signature(artist_id, audio_hash, signature, public_key_pem) ==
    verify_signature(artist_id, audio_hash, signature, public_key_pem)

\* ArtistAuth.verify_artist_signature: the message is the challenge alone
verify_artist_signature(artist_id, challenge, signature, public_key) ==
    LET public_key_obj == load_pem_public_key(public_key)
        signature_bytes == b64decode(signature)
    IN  IF ~public_key_obj.ok THEN Returned(FALSE)
        ELSE IF ~signature_bytes.ok THEN Returned(FALSE)
        ELSE IF ~PssVerifies(public_key_obj.key, signature_bytes.bytes, challenge)
             THEN Returned(FALSE)
        ELSE Returned(TRUE)

(***************************************************************************)
(* Files.  A path is a sequence of name parts; ".wav" is one part, so that *)
(* str.replace(".wav", ...) is a substitution of parts.                    *)
(***************************************************************************)
RECURSIVE PathReplace(_, _, _)
PathReplace(path, old, new) ==
    IF path = <<>> THEN <<>>
    ELSE (IF Head(path) = old THEN new ELSE <<Head(path)>>)
             \o PathReplace(Tail(path), old, new)

\* output_path.replace(".wav", "_metadata.json")
MetadataPath(audio_path) == PathReplace(audio_path, ".wav", <<"_metadata.json">>)

\* input_path.replace(".wav", "_marked.wav")
MarkedPath(input_path) == PathReplace(input_path, ".wav", <<"_marked", ".wav">>)

InPath == <<"song", ".wav">>
OutPath == MarkedPath(InPath)

\* tempfile.NamedTemporaryFile(delete=False, suffix=".wav"), n-th fresh name
TmpPath(n) == <<ToString(n), ".wav">>

AudioPaths == {InPath, OutPath}
                  \cup {TmpPath(n) : n \in 1..MaxTmp}
                  \cup {MarkedPath(TmpPath(n)) : n \in 1..MaxTmp}

AllPaths == AudioPaths \cup {MetadataPath(p) : p \in AudioPaths}

Absent == [kind |-> "absent"]

AudioFile(y) == [kind |-> "audio", num |-> y.num, den |-> y.den]

MetadataKeys == {"artist_id", "signature", "audio_hash", "watermark_type"}

JsonFile(doc) == [kind |-> "json", doc |-> doc]

UnreadableJson == [kind |-> "badjson"]

\* A file json.load reads without error and that holds no object: a list.
JsonArrayFile == [kind |-> "array", doc |-> [keys |-> {}]]

\* metadata.get(key, default)
Get(doc, key, default) == IF key \in doc.keys THEN doc[key] ELSE default

\* What the PCM encoder stores for a NaN sample is not defined: silence or
\* negative full scale.
NaNAsPcm == {0, -1}

\* sf.write(output_path, y_marked, sr)
SfWrite(y, nanAs) ==
    IF IsNaN(y) THEN AudioFile([num |-> [i \in 1..Len(y.num) |-> nanAs], den |-> 1])
    ELSE AudioFile(y)

\* librosa.load(path, sr=44100, mono=True) of a file that holds audio
Loaded(file) == [num |-> file.num, den |-> file.den]

(***************************************************************************)
(* Embedder (embed.py).                                                    *)
(***************************************************************************)
\* embed.py 28-31
EmbedPattern(id_str, secret, n) == StandardNormal(SeedOf(id_str \o secret), n)

\* embed.py 68-71
EmbedSignedPattern(id_str, signature, n) == StandardNormal(SeedOf(id_str \o signature), n)

Metadata(id_str, signature, audio_hash) ==
    [keys |-> MetadataKeys, artist_id |-> id_str, signature |-> signature,
     audio_hash |-> audio_hash, watermark_type |-> "cryptographic"]

\* An exception of class error left the function before anything was written.
EmbedFailed(f, error) ==
    [raised |-> TRUE, error |-> error, fs |-> f, material |-> <<>>, pattern |-> <<>>]

\* What librosa.load raises for a path that holds no audio.
LoadError == "LibsndfileError"

\* embed_watermark from the files f: whether it raised, the files after it,
\* and the seed material and pattern it used
embed_watermark(f, input_path, output_path, id_str, secret, nanAs) ==
    IF f[input_path].kind # "audio" THEN EmbedFailed(f, LoadError)
    ELSE LET y == Normalize(Loaded(f[input_path]))
             pattern == EmbedPattern(id_str, secret, Len(y.num))
             y_marked == Mix(y, pattern)
         IN  [raised |-> FALSE, error |-> "",
              fs |-> [f EXCEPT ![output_path] = SfWrite(y_marked, nanAs)],
              material |-> secret, pattern |-> pattern]

\* The variant that hashes the samples as loaded, before normalisation.
LoadedFingerprint(loaded, y) == BufferDigest(loaded)

\* audio_hash = hashlib.sha256(y.tobytes()).hexdigest(), y the normalised
\* samples
NormalizedFingerprint(loaded, y) == BufferDigest(y)

\* embed_watermark_with_signature
embed_watermark_with_signature(f, input_path, output_path, id_str, private_key_pem, salt, nanAs) ==
    IF f[input_path].kind # "audio" THEN EmbedFailed(f, LoadError)
    ELSE LET y == Normalize(Loaded(f[input_path]))
             audio_hash == NormalizedFingerprint(Loaded(f[input_path]), y)
             signature == create_watermark_signature(id_str, audio_hash,
                                                     private_key_pem, salt)
             pattern == EmbedSignedPattern(id_str, signature.value, Len(y.num))
             y_marked == Mix(y, pattern)
             written == [f EXCEPT ![output_path] = SfWrite(y_marked, nanAs)]
             metadata_path == MetadataPath(output_path)
         IN  IF signature.raised THEN EmbedFailed(f, signature.error)
             ELSE [raised |-> FALSE, error |-> "",
                   fs |-> [written EXCEPT ![metadata_path] =
                              JsonFile(Metadata(id_str, signature.value, audio_hash))],
                   material |-> signature.value, pattern |-> pattern]

(***************************************************************************)
(* Detector (extract.py).                                                  *)
(***************************************************************************)
\* The variant that concatenates the key material before the identity.
DetectPatternSwapped(id_str, secret, n) == StandardNormal(SeedOf(secret \o id_str), n)

\* The variant that keeps the identity and the secret apart in the seed text.
DetectPatternSeparated(id_str, secret, n) ==
    StandardNormal(SeedOf(id_str \o <<Ch(":")>> \o secret), n)

\* extract.py 27-30
DetectPattern(id_str, secret, n) == StandardNormal(SeedOf(id_str \o secret), n)

\* extract.py 94-102
DetectSignedPattern(id_str, material, n) == StandardNormal(SeedOf(id_str \o material), n)

Fallback == Str(<<"f", "a", "l", "l", "b", "a", "c", "k">>)

ZeroCorr == [nan |-> FALSE, c |-> 0, vy |-> 1, vp |-> 1]

NoPattern == <<>>

\* A returned score, (corr + add) / div, corr being c / sqrt(vy * vp).
\* float(corr), detect_watermark
PlainScore(corr) == [corr |-> corr, add |-> 0, div |-> 1]

\* The variant that leaves the signature score out.
HalvedCorrelation(corr, signature_score) == [corr |-> corr, add |-> 0, div |-> 2]

\* The variant that does not halve the sum.
SummedScore(corr, signature_score) == [corr |-> corr, add |-> signature_score, div |-> 1]

\* combined_score = (float(corr) + signature_score) / 2.0
CombinedScore(corr, signature_score) ==
    [corr |-> corr, add |-> signature_score, div |-> 2]

\* The value of a detection call; fields a call does not produce keep these.
NoVerdict ==
    [raised |-> TRUE, verified |-> FALSE, corr |-> ZeroCorr, nanCorr |-> FALSE,
     signature_valid |-> FALSE, signature_score |-> 0, found |-> FALSE,
     bound |-> FALSE, material |-> <<>>, pattern |-> NoPattern,
     score |-> PlainScore(ZeroCorr), method |-> ""]

\* detect_watermark
detect_watermark(f, audio_path, id_str, secret) ==
    IF f[audio_path].kind # "audio" THEN NoVerdict
    ELSE LET y == Normalize(Loaded(f[audio_path]))
             pattern == DetectPattern(id_str, secret, Len(y.num))
             raw == Corrcoef(y, pattern)
             corr == NanToZero(raw)
         IN  [NoVerdict EXCEPT !.raised = FALSE,
                               !.verified = ExceedsThreshold(corr),
                               !.corr = corr, !.nanCorr = raw.nan,
                               !.material = secret, !.pattern = pattern,
                               !.score = PlainScore(corr)]

\* The variant that counts the correlation alone.
CorrelationOnly(signature_valid, correlation_verified) == correlation_verified

\* verified = signature_valid and correlation_verified
CombinedVerified(signature_valid, correlation_verified) ==
    signature_valid /\ correlation_verified

\* The variant that hashes the candidate samples.
RecomputedFingerprint(metadata, y) == BufferDigest(y)

\* audio_hash = metadata.get("audio_hash", ""): the fingerprint the record
\* stores, not one computed from the candidate y
RecordFingerprint(metadata, y) == Get(metadata, "audio_hash", <<>>)

\* The variant that verifies a record of any kind.
AnyKind(metadata) == TRUE

\* if metadata.get("watermark_type") == "cryptographic"
IsCryptographic(metadata) == Get(metadata, "watermark_type", "") = "cryptographic"

\* The variant that seeds from the record whenever it holds a signature.
SeedMaterialFromRecord(signature_valid, bound, metadata) ==
    IF bound /\ "signature" \in metadata.keys THEN metadata.signature ELSE Fallback

\* if signature_valid and "signature" in metadata: id_str + metadata["signature"]
\* else: id_str + "fallback"; the text that follows id_str
SeedMaterial(signature_valid, bound, metadata) ==
    IF signature_valid /\ "signature" \in metadata.keys
    THEN metadata.signature ELSE Fallback

\* The variant that evaluates "signature" in metadata before signature_valid.
MembershipFirst(signature_valid, bound) == ~bound

\* if signature_valid and "signature" in metadata: the name metadata is read,
\* and NameError raised if it was never bound, only when signature_valid
SeedBranchRaises(signature_valid, bound) == signature_valid /\ ~bound

\* detect_watermark_with_signature
detect_watermark_with_signature(f, audio_path, id_str, public_key_pem) ==
    IF f[audio_path].kind # "audio" THEN NoVerdict
    ELSE LET y == Normalize(Loaded(f[audio_path]))
             metadata_path == MetadataPath(audio_path)
             exists == f[metadata_path].kind # "absent"
             \* json.load succeeded: the name metadata is bound
             bound == exists /\ f[metadata_path].kind \in {"json", "array"}
             metadata == f[metadata_path].doc
             \* metadata.get on a list raises AttributeError inside the try
             checked ==
                 IF bound /\ f[metadata_path].kind = "array" THEN Raised
                 ELSE IF bound /\ IsCryptographic(metadata)
                 THEN verify_watermark_signature(id_str,
                          RecordFingerprint(metadata, y),
                          Get(metadata, "signature", <<>>), public_key_pem)
                 ELSE Returned(FALSE)
             \* an exception inside the try block leaves signature_valid False
             signature_valid == ~checked.raised /\ checked.value
             signature_score == IF signature_valid THEN 1 ELSE 0
             unbound == SeedBranchRaises(signature_valid, bound)
             material == SeedMaterial(signature_valid, bound, metadata)
             pattern == DetectSignedPattern(id_str, material, Len(y.num))
             raw == Corrcoef(y, pattern)
             corr == NanToZero(raw)
             correlation_verified == ExceedsThreshold(corr)
         IN  IF unbound THEN NoVerdict
             ELSE [NoVerdict EXCEPT !.raised = FALSE,
                                    !.verified = CombinedVerified(signature_valid,
                                                                  correlation_verified),
                                    !.corr = corr, !.nanCorr = raw.nan,
                                    !.signature_valid = signature_valid,
                                    !.signature_score = signature_score,
                                    !.found = exists, !.bound = bound,
                                    !.material = material, !.pattern = pattern,
                                    !.score = CombinedScore(corr, signature_score)]

\* detect_watermark_hybrid: the verdict of the detector is_key_pair selects,
\* with the method that goes with it
detect_watermark_hybrid(f, audio_path, id_str, secret_or_public_key, is_key_pair) ==
    IF is_key_pair
    THEN LET out == detect_watermark_with_signature(f, audio_path, id_str,
                                                    secret_or_public_key)
         IN  IF out.raised THEN out
             ELSE [out EXCEPT !.method = IF out.signature_valid THEN "cryptographic"
                                         ELSE "correlation"]
    ELSE LET out == detect_watermark(f, audio_path, id_str, secret_or_public_key)
         IN  IF out.raised THEN out ELSE [out EXCEPT !.method = "traditional"]

\* The variant of a detector that removes the record once it has read it.
FilesAfterConsuming(f, audio_path) ==
    [f EXCEPT ![MetadataPath(audio_path)] = Absent]

\* The files after a detection: librosa.load reads the candidate and
\* open(metadata_path, 'r') reads the record; nothing is written.
FilesAfterDetect(f, audio_path) == f

(***************************************************************************)
(* State.  fs: the files; res: the last call and what it returned; made:   *)
(* what the last embedding into OutPath was given and what has been done   *)
(* to its output since; tmpCount: temp names handed out so far.            *)
(***************************************************************************)
Idents == {Str(<<"a">>), Str(<<"a", "b">>)}
Secrets == {Str(<<"b", "c">>), Str(<<"c">>)}

\* auth_token = None: the form field was not sent.
NoToken == [artist_id |-> <<>>, timestamp |-> -1, prefix |-> ""]

NoRes ==
    [op |-> "none", path |-> <<>>, id |-> <<>>, secret |-> <<>>, pem |-> JunkPem,
     data |-> <<>>, sig |-> <<>>, call |-> Returned(FALSE), out |-> NoVerdict,
     wrote |-> {}, status |-> 0, src |-> <<>>, token |-> NoToken]

NoMade ==
    [kind |-> "none", id |-> <<>>, secret |-> <<>>, pem |-> JunkPem, salt |-> 0,
     signal |-> <<>>, material |-> <<>>, pattern |-> <<>>, touched |-> {}]

\* The requests a server is handling at once, one per worker.
Procs == {1, 2}

\* A worker's request: its form fields, how far its handler has got (pc), the
\* temp name it was given, the samples it has loaded, and its response.
NoReq ==
    [kind |-> "none", pc |-> "idle", upload |-> <<>>, id |-> <<>>, pem |-> JunkPem,
     path |-> <<>>, loaded |-> Absent, status |-> 0, out |-> NoVerdict]

\* The server's memory: artist_auth.auth_tokens, registry.registry, the
\* clock, and (kept by no code) the challenges handed out so far.
NoSrv == [auth_tokens |-> {}, registry |-> {}, issued |-> {}, now |-> 0]

Init ==
    /\ fs = [p \in AllPaths |-> Absent]
    /\ res = NoRes
    /\ made = NoMade
    /\ tmpCount = 0
    /\ reqs = [r \in Procs |-> NoReq]
    /\ srv = NoSrv

Changed(f, g) == {p \in AllPaths : f[p] # g[p]}

\* A call that only computes a value has returned it; the caller takes it
\* before the next step.
Pending == res.op \in {"detect", "detectSigned", "detectHybrid", "verify", "verifyArtist"}

Return ==
    /\ Pending
    /\ res' = NoRes
    /\ UNCHANGED <<fs, made, tmpCount, reqs, srv>>

\* The caller provides the input recording.
PutAudio(s) ==
    /\ ~Pending
    /\ fs[InPath].kind = "absent"
    /\ fs' = [fs EXCEPT ![InPath] = AudioFile(Samples(s))]
    /\ res' = [NoRes EXCEPT !.op = "put"]
    /\ UNCHANGED <<made, tmpCount, reqs, srv>>

\* The caller removes the recording, the output and its sidecar record.
Cleanup ==
    /\ ~Pending
    /\ fs[InPath].kind # "absent"
    /\ fs' = [p \in AllPaths |-> IF p \in {InPath, OutPath, MetadataPath(OutPath)}
                                  THEN Absent ELSE fs[p]]
    /\ res' = [NoRes EXCEPT !.op = "cleanup"]
    /\ made' = NoMade
    /\ UNCHANGED <<tmpCount, reqs, srv>>

CallEmbed(id_str, secret, nanAs) ==
    LET r == embed_watermark(fs, InPath, OutPath, id_str, secret, nanAs)
    IN  /\ ~Pending
        /\ made.kind = "none"
        /\ fs' = r.fs
        /\ res' = [NoRes EXCEPT !.op = "embed", !.path = OutPath, !.id = id_str,
                                !.secret = secret, !.call = [Raised EXCEPT !.raised = r.raised, !.error = r.error],
                                !.wrote = Changed(fs, r.fs)]
        /\ made' = IF r.raised THEN made
                   ELSE [NoMade EXCEPT !.kind = "plain", !.id = id_str, !.secret = secret,
                                       !.signal = fs[InPath].num,
                                       !.material = r.material, !.pattern = r.pattern]
        /\ UNCHANGED <<tmpCount, reqs, srv>>

CallEmbedSigned(id_str, private_key_pem, salt, nanAs) ==
    LET r == embed_watermark_with_signature(fs, InPath, OutPath, id_str,
                                            private_key_pem, salt, nanAs)
    IN  /\ ~Pending
        /\ made.kind = "none"
        /\ fs' = r.fs
        /\ res' = [NoRes EXCEPT !.op = "embedSigned", !.path = OutPath, !.id = id_str,
                                !.pem = private_key_pem,
                                !.call = [Raised EXCEPT !.raised = r.raised, !.error = r.error],
                                !.wrote = Changed(fs, r.fs)]
        /\ made' = IF r.raised THEN made
                   ELSE [NoMade EXCEPT !.kind = "signed", !.id = id_str,
                                       !.pem = private_key_pem, !.salt = salt,
                                       !.signal = fs[InPath].num,
                                       !.material = r.material, !.pattern = r.pattern]
        /\ UNCHANGED <<tmpCount, reqs, srv>>

CallDetect(audio_path, id_str, secret) ==
    /\ ~Pending
    /\ made.kind = "plain"
    /\ res' = [NoRes EXCEPT !.op = "detect", !.path = audio_path, !.id = id_str,
                            !.secret = secret,
                            !.out = detect_watermark(fs, audio_path, id_str, secret)]
    /\ fs' = FilesAfterDetect(fs, audio_path)
    /\ UNCHANGED <<made, tmpCount, reqs, srv>>

CallDetectSigned(audio_path, id_str, public_key_pem) ==
    /\ ~Pending
    /\ made.kind = "signed"
    /\ res' = [NoRes EXCEPT !.op = "detectSigned", !.path = audio_path, !.id = id_str,
                            !.pem = public_key_pem,
                            !.out = detect_watermark_with_signature(fs, audio_path, id_str,
                                                                    public_key_pem)]
    /\ fs' = FilesAfterDetect(fs, audio_path)
    /\ UNCHANGED <<made, tmpCount, reqs, srv>>

HybridSecrets == {Str(<<"c">>)}

HybridPubPems == {PubPem(1)}

CallDetectHybrid(audio_path, id_str, secret_or_public_key, is_key_pair) ==
    /\ ~Pending
    /\ made.kind = IF is_key_pair THEN "signed" ELSE "plain"
    /\ res' = [NoRes EXCEPT !.op = "detectHybrid", !.path = audio_path, !.id = id_str,
                            !.secret = IF is_key_pair THEN <<>> ELSE secret_or_public_key,
                            !.pem = IF is_key_pair THEN secret_or_public_key ELSE JunkPem,
                            !.out = detect_watermark_hybrid(fs, audio_path, id_str,
                                        secret_or_public_key, is_key_pair)]
    /\ fs' = FilesAfterDetect(fs, audio_path)
    /\ UNCHANGED <<made, tmpCount, reqs, srv>>

(***************************************************************************)
(* The environment: the output and its sidecar record are ordinary files   *)
(* that anyone holding them can change between embedding and detection.    *)
(***************************************************************************)
\* The same base64 body with the unused bits of its last character changed.
FlipSlack(text) ==
    [i \in 1..Len(text) |->
        IF text[i].t = "b64" THEN [text[i] EXCEPT !.slack = 1 - text[i].slack]
        ELSE text[i]]

SignatureEdits == {"newline", "slack", "trailing", "letters"}

MalformedEdits == {"prefix", "empty"}

EditSignature(text, how) ==
    CASE how = "newline"  -> text \o <<Ch("\n")>>
      [] how = "slack"    -> FlipSlack(text)
      [] how = "trailing" -> text \o <<Ch("a")>>
      [] how = "prefix"   -> <<Ch("a")>> \o text
      [] how = "letters"  -> Str(<<"a", "b", "c", "a">>)
      [] OTHER            -> <<>>

AudioEdits == {"invert", "mute"}

EditAudio(file, how) ==
    LET n == Len(file.num)
    IN  IF how = "invert" THEN [file EXCEPT !.num = [i \in 1..n |-> -file.num[i]]]
        ELSE [file EXCEPT !.num = [i \in 1..n |-> 0]]

Untouched == made.kind # "none" /\ made.touched = {}

TamperSignature(how) ==
    /\ ~Pending
    /\ Untouched
    /\ fs[MetadataPath(OutPath)].kind = "json"
    /\ fs' = [fs EXCEPT ![MetadataPath(OutPath)].doc.signature =
                            EditSignature(@, how)]
    /\ made' = [made EXCEPT !.touched = {"signature"}]
    /\ res' = [NoRes EXCEPT !.op = "tamper"]
    /\ UNCHANGED <<tmpCount, reqs, srv>>

TamperAudio(how) ==
    /\ ~Pending
    /\ Untouched
    /\ fs[OutPath].kind = "audio"
    /\ fs' = [fs EXCEPT ![OutPath] = EditAudio(@, how)]
    /\ made' = [made EXCEPT !.touched = {"audio"}]
    /\ res' = [NoRes EXCEPT !.op = "tamper"]
    /\ UNCHANGED <<tmpCount, reqs, srv>>

RemoveRecord ==
    /\ ~Pending
    /\ Untouched
    /\ fs[MetadataPath(OutPath)].kind = "json"
    /\ fs' = [fs EXCEPT ![MetadataPath(OutPath)] = Absent]
    /\ made' = [made EXCEPT !.touched = {"record"}]
    /\ res' = [NoRes EXCEPT !.op = "tamper"]
    /\ UNCHANGED <<tmpCount, reqs, srv>>

CorruptRecord ==
    /\ ~Pending
    /\ Untouched
    /\ fs[MetadataPath(OutPath)].kind = "json"
    /\ fs' = [fs EXCEPT ![MetadataPath(OutPath)] = UnreadableJson]
    /\ made' = [made EXCEPT !.touched = {"record"}]
    /\ res' = [NoRes EXCEPT !.op = "tamper"]
    /\ UNCHANGED <<tmpCount, reqs, srv>>

RecordEdits == {"artist", "kind"}

\* The record with a field other than the signature and the fingerprint
\* rewritten: another artist identifier, or another watermark kind.
EditRecord(how) ==
    /\ ~Pending
    /\ Untouched
    /\ fs[MetadataPath(OutPath)].kind = "json"
    /\ fs' = IF how = "artist"
             THEN [fs EXCEPT ![MetadataPath(OutPath)].doc.artist_id = Str(<<"c">>)]
             ELSE [fs EXCEPT ![MetadataPath(OutPath)].doc.watermark_type = "traditional"]
    /\ made' = [made EXCEPT !.touched = {"field"}]
    /\ res' = [NoRes EXCEPT !.op = "tamper"]
    /\ UNCHANGED <<tmpCount, reqs, srv>>

(***************************************************************************)
(* Direct calls of the signature service.  The functions read no file, so  *)
(* they are called from the state in which no file exists.                 *)
(***************************************************************************)
Digests == {BufferDigest(Normalize(Samples(<<1, 0>>))), Str(<<"b">>), Str(<<"a", ":", "b">>)}

Challenges == {Str(<<"a", ":", "b">>), Str(<<"c">>)}

SignedTexts ==
    {b64encode(PssSign(k, m, 1)) :
        k \in KeyIds,
        m \in {Message(i, d) : i \in Idents, d \in Digests} \cup Challenges}

SignatureTexts ==
    SignedTexts
        \cup {EditSignature(b64encode(PssSign(1, Message(Str(<<"a">>), Str(<<"b">>)), 1)), h) :
                 h \in SignatureEdits \cup MalformedEdits}
        \cup {Str(<<"a">>), Str(<<"a", "b">>), Str(<<":">>)}

NoFiles == \A p \in AllPaths : fs[p].kind = "absent"

CallVerify(artist_id, watermark_data, signature, public_key_pem) ==
    /\ ~Pending
    /\ NoFiles
    /\ res' = [NoRes EXCEPT !.op = "verify", !.id = artist_id, !.data = watermark_data,
                            !.sig = signature, !.pem = public_key_pem,
                            !.call = verify_watermark_signature(artist_id, watermark_data,
                                                                signature, public_key_pem)]
    /\ UNCHANGED <<fs, made, tmpCount, reqs, srv>>

CallVerifyArtist(artist_id, challenge, signature, public_key) ==
    /\ ~Pending
    /\ NoFiles
    /\ res' = [NoRes EXCEPT !.op = "verifyArtist", !.id = artist_id, !.data = challenge,
                            !.sig = signature, !.pem = public_key,
                            !.call = verify_artist_signature(artist_id, challenge,
                                                             signature, public_key)]
    /\ UNCHANGED <<fs, made, tmpCount, reqs, srv>>

\* Each disjunct states the guard its calls share before it draws inputs.
Next ==
    \/ Return
    \/ (~Pending /\ fs[InPath].kind = "absent" /\ \E s \in Signals : PutAudio(s))
    \/ Cleanup
    \/ (~Pending /\ made.kind = "none"
          /\ \E i \in Idents, k \in Secrets, v \in NaNAsPcm : CallEmbed(i, k, v))
    \/ (~Pending /\ made.kind = "none"
          /\ \E i \in Idents, k \in SignerPems, n \in Salts, v \in NaNAsPcm :
                 CallEmbedSigned(i, k, n, v))
    \/ (~Pending /\ made.kind = "plain"
          /\ \E i \in Idents, k \in Secrets : CallDetect(OutPath, i, k))
    \/ (~Pending /\ made.kind = "signed"
          /\ \E i \in Idents, k \in PubPems : CallDetectSigned(OutPath, i, k))
    \/ (~Pending /\ made.kind = "signed"
          /\ \E i \in Idents, k \in HybridPubPems : CallDetectHybrid(OutPath, i, k, TRUE))
    \/ (~Pending /\ made.kind = "plain"
          /\ \E i \in Idents, k \in HybridSecrets : CallDetectHybrid(OutPath, i, k, FALSE))
    \/ (Untouched /\ \E h \in SignatureEdits : TamperSignature(h))
    \/ (Untouched /\ \E h \in AudioEdits : TamperAudio(h))
    \/ RemoveRecord
    \/ CorruptRecord
    \/ (Untouched /\ \E h \in RecordEdits : EditRecord(h))
    \/ (~Pending /\ NoFiles
          /\ \E i \in Idents, d \in Digests, g \in SignatureTexts, k \in PubPems :
                 CallVerify(i, d, g, k))
    \/ (~Pending /\ NoFiles
          /\ \E i \in Idents, d \in Challenges, g \in SignatureTexts, k \in PubPems :
                 CallVerifyArtist(i, d, g, k))

Spec == Init /\ [][Next]_vars

(***************************************************************************)
(* Request handlers (main.py).  A handler runs from the upload to the      *)
(* response in one step.  status is the HTTP status of the response.       *)
(***************************************************************************)
ApiUploads == {<<2, -1, 1>>, <<0, 0>>}

ApiPubPems == {PubPem(1), JunkPem}

MarkedPaths == {MarkedPath(TmpPath(n)) : n \in 1..MaxTmp}

\* POST /embed-cryptographic
embed_audio_cryptographic(upload, id, private_key, salt, nanAs) ==
    LET input_path == TmpPath(tmpCount + 1)
        saved == [fs EXCEPT ![input_path] = AudioFile(Samples(upload))]
        output_path == MarkedPath(input_path)
        r == embed_watermark_with_signature(saved, input_path, output_path, id,
                                            private_key, salt, nanAs)
    IN  /\ tmpCount < MaxTmp
        /\ tmpCount' = tmpCount + 1
        /\ fs' = IF r.raised THEN r.fs ELSE [r.fs EXCEPT ![input_path] = Absent]
        /\ res' = [NoRes EXCEPT !.op = "POST /embed-cryptographic", !.path = output_path,
                                !.id = id, !.pem = private_key,
                                !.status = IF r.raised THEN 500 ELSE 200,
                                !.wrote = Changed(fs, r.fs)]
        /\ UNCHANGED <<made, reqs, srv>>

\* POST /verify-cryptographic, the upload being the watermarked file that an
\* earlier POST /embed-cryptographic returned and left at src
verify_audio_cryptographic(src, id, public_key) ==
    LET path == TmpPath(tmpCount + 1)
        saved == [fs EXCEPT ![path] = fs[src]]
        out == detect_watermark_with_signature(saved, path, id, public_key)
    IN  /\ tmpCount < MaxTmp
        /\ fs[src].kind = "audio"
        /\ tmpCount' = tmpCount + 1
        /\ fs' = IF out.raised THEN saved ELSE [saved EXCEPT ![path] = Absent]
        /\ res' = [NoRes EXCEPT !.op = "POST /verify-cryptographic", !.path = path,
                                !.src = src, !.id = id, !.pem = public_key, !.out = out,
                                !.status = IF out.raised THEN 500 ELSE 200]
        /\ UNCHANGED <<made, reqs, srv>>

NextApi ==
    \/ \E u \in ApiUploads, i \in Idents, k \in SignerPems, v \in NaNAsPcm :
           embed_audio_cryptographic(u, i, k, 1, v)
    \/ \E p \in MarkedPaths, i \in Idents, k \in ApiPubPems :
           verify_audio_cryptographic(p, i, k)

SpecApi == Init /\ [][NextApi]_vars

(***************************************************************************)
(* Requests handled at once.  Each worker runs one handler of main.py, a   *)
(* step at a time: create the temp file, save the upload, load it, write   *)
(* the output, write the record, unlink the temp file and respond.  Steps  *)
(* of different workers interleave freely.                                 *)
(***************************************************************************)
ConcUploads == {<<2, -1, 1>>, <<-2, -1>>}

ConcIdents == {Str(<<"a">>)}

\* A temp file that has been created and not yet written.
EmptyFile == [kind |-> "empty"]

\* The variant that hands every request the same name.
ReusedName(count) == TmpPath(1)

\* tempfile.NamedTemporaryFile(delete=False, suffix=".wav"): a name no
\* existing file has
FreshName(count) == TmpPath(count + 1)

\* with tempfile.NamedTemporaryFile(...) as tmp: the file is created, and the
\* handler awaits the upload
Create(r, kind, upload, id, pem) ==
    /\ reqs[r].pc = "idle"
    /\ tmpCount < MaxTmp
    /\ tmpCount' = tmpCount + 1
    /\ fs' = [fs EXCEPT ![FreshName(tmpCount)] = EmptyFile]
    /\ reqs' = [reqs EXCEPT ![r] =
                  [NoReq EXCEPT !.kind = kind, !.pc = "created", !.upload = upload,
                                !.id = id, !.pem = pem, !.path = FreshName(tmpCount)]]
    /\ UNCHANGED <<res, made, srv>>

\* content = await file.read(); tmp.write(content)
Save(r) ==
    /\ reqs[r].pc = "created"
    /\ fs' = [fs EXCEPT ![reqs[r].path] = AudioFile(Samples(reqs[r].upload))]
    /\ reqs' = [reqs EXCEPT ![r].pc = "saved"]
    /\ UNCHANGED <<res, made, tmpCount, srv>>

\* librosa.load of the temp file, inside the embedder or the detector
Load(r) ==
    /\ reqs[r].pc = "saved"
    /\ reqs' = IF fs[reqs[r].path].kind = "audio"
               THEN [reqs EXCEPT ![r].pc = "loaded", ![r].loaded = fs[reqs[r].path]]
               ELSE [reqs EXCEPT ![r].pc = "done", ![r].status = 500]
    /\ UNCHANGED <<fs, res, made, tmpCount, srv>>

\* What embed_watermark_with_signature makes of the samples worker r loaded.
Embedding(r) ==
    embed_watermark_with_signature([fs EXCEPT ![reqs[r].path] = reqs[r].loaded],
        reqs[r].path, MarkedPath(reqs[r].path), reqs[r].id, reqs[r].pem, 1, 0)

\* normalize, hash, sign, mix and sf.write(output_path, y_marked, sr); a key
\* that does not parse ends the handler in its except branch
EmbedWrite(r) ==
    /\ reqs[r].kind = "embed" /\ reqs[r].pc = "loaded"
    /\ IF Embedding(r).raised
       THEN /\ reqs' = [reqs EXCEPT ![r].pc = "done", ![r].status = 500]
            /\ fs' = fs
       ELSE /\ reqs' = [reqs EXCEPT ![r].pc = "written"]
            /\ fs' = [fs EXCEPT ![MarkedPath(reqs[r].path)] =
                                   Embedding(r).fs[MarkedPath(reqs[r].path)]]
    /\ UNCHANGED <<res, made, tmpCount, srv>>

\* json.dump(metadata, f) into output_path.replace(".wav", "_metadata.json")
EmbedRecord(r) ==
    /\ reqs[r].kind = "embed" /\ reqs[r].pc = "written"
    /\ fs' = [fs EXCEPT ![MetadataPath(MarkedPath(reqs[r].path))] =
                           Embedding(r).fs[MetadataPath(MarkedPath(reqs[r].path))]]
    /\ reqs' = [reqs EXCEPT ![r].pc = "recorded"]
    /\ UNCHANGED <<res, made, tmpCount, srv>>

\* detect_watermark_with_signature after its librosa.load: reads the record
\* beside the temp file and computes the verdict
Detect(r) ==
    LET out == detect_watermark_with_signature(
                   [fs EXCEPT ![reqs[r].path] = reqs[r].loaded],
                   reqs[r].path, reqs[r].id, reqs[r].pem)
    IN  /\ reqs[r].kind = "verify" /\ reqs[r].pc = "loaded"
        /\ reqs' = IF out.raised
                   THEN [reqs EXCEPT ![r].pc = "done", ![r].status = 500]
                   ELSE [reqs EXCEPT ![r].pc = "detected", ![r].out = out]
        /\ UNCHANGED <<fs, res, made, tmpCount, srv>>

\* os.unlink of the temp file, then the response
Unlink(r) ==
    /\ reqs[r].pc \in {"recorded", "detected"}
    /\ fs' = [fs EXCEPT ![reqs[r].path] = Absent]
    /\ reqs' = [reqs EXCEPT ![r].pc = "done", ![r].status = 200]
    /\ UNCHANGED <<res, made, tmpCount, srv>>

NextConc ==
    \/ \E r \in Procs, u \in ConcUploads, i \in ConcIdents, k \in SignerPems :
           Create(r, "embed", u, i, k)
    \/ \E r \in Procs, u \in ConcUploads, i \in ConcIdents, k \in ApiPubPems :
           Create(r, "verify", u, i, k)
    \/ \E r \in Procs : Save(r)
    \/ \E r \in Procs : Load(r)
    \/ \E r \in Procs : EmbedWrite(r)
    \/ \E r \in Procs : EmbedRecord(r)
    \/ \E r \in Procs : Detect(r)
    \/ \E r \in Procs : Unlink(r)

SpecConc == Init /\ [][NextConc]_vars

(***************************************************************************)
(* Artist authentication and registration (auth.py, registry.py and their  *)
(* handlers in main.py).  The clock counts days.                           *)
(***************************************************************************)
\* expires_at = timestamp + (24 * 60 * 60): one day
TokenTtl == 1

\* f"authenticate_{artist_id}_{timestamp}_{nonce}", the nonce being a digest
\* of artist_id, timestamp and the server's secret
Challenge(artist_id, timestamp) ==
    <<[t |-> "challenge", artist_id |-> artist_id, timestamp |-> timestamp]>>

\* ArtistAuth.generate_auth_challenge: the challenge is returned and kept
\* nowhere
generate_auth_challenge(artist_id, now) == Challenge(artist_id, now)

\* sha256(f"{artist_id}_{timestamp}_{public_key[:50]}_{secret_key}"): the
\* first 50 characters of a PEM text show its kind and nothing of the key
Token(artist_id, timestamp, public_key) ==
    [artist_id |-> artist_id, timestamp |-> timestamp, prefix |-> public_key.fmt]

\* ArtistAuth.create_auth_token: the token and auth_tokens after
\* self.auth_tokens[token] = {...}
create_auth_token(auth_tokens, artist_id, public_key, now) ==
    LET token == Token(artist_id, now, public_key)
    IN  [token |-> token,
         auth_tokens |->
             {e \in auth_tokens : e.token # token}
                 \cup {[token |-> token, artist_id |-> artist_id,
                        public_key |-> public_key, created_at |-> now,
                        expires_at |-> now + TokenTtl]}]

\* ArtistAuth.verify_auth_token: whether the token is known and not expired,
\* its data, and auth_tokens after an expired token was deleted
verify_auth_token(auth_tokens, token, now) ==
    LET known == {e \in auth_tokens : e.token = token}
    IN  IF known = {} THEN [found |-> FALSE, data |-> {}, auth_tokens |-> auth_tokens]
        ELSE IF \E e \in known : now > e.expires_at
        THEN [found |-> FALSE, data |-> {}, auth_tokens |-> auth_tokens \ known]
        ELSE [found |-> TRUE, data |-> known, auth_tokens |-> auth_tokens]

\* The variant that asks only whether the token is valid.
AuthorizedByAnyToken(auth_tokens, artist_id, token, now) ==
    LET token_data == verify_auth_token(auth_tokens, token, now)
    IN  [ok |-> token_data.found, auth_tokens |-> token_data.auth_tokens]

\* ArtistAuth.is_artist_authorized
is_artist_authorized(auth_tokens, artist_id, token, now) ==
    LET token_data == verify_auth_token(auth_tokens, token, now)
    IN  [ok |-> token_data.found /\ \A e \in token_data.data : e.artist_id = artist_id,
         auth_tokens |-> token_data.auth_tokens]

\* ArtistAuth.revoke_auth_token
revoke_auth_token(auth_tokens, token) ==
    IF \E e \in auth_tokens : e.token = token
    THEN [ok |-> TRUE, auth_tokens |-> {e \in auth_tokens : e.token # token}]
    ELSE [ok |-> FALSE, auth_tokens |-> auth_tokens]

\* KeyRegistry.register_artist: False if the artist exists, else the entry is
\* added (and the registry saved)
registry_register_artist(registry, artist_id, public_key) ==
    IF \E e \in registry : e.artist_id = artist_id
    THEN [ok |-> FALSE, registry |-> registry]
    ELSE [ok |-> TRUE,
          registry |-> registry \cup {[artist_id |-> artist_id, public_key |-> public_key]}]

\* The artist who asks for challenges, and the texts a client may sign.
Challengers == {Str(<<"a">>)}

ClientKeys == {1}

\* POST /authenticate-artist
authenticate_artist(artist_id, public_key) ==
    LET challenge == generate_auth_challenge(artist_id, srv.now)
    IN  /\ Cardinality(srv.issued \cup {<<artist_id, challenge>>}) <= MaxHeld
        /\ srv' = [srv EXCEPT !.issued = @ \cup {<<artist_id, challenge>>}]
        /\ res' = [NoRes EXCEPT !.op = "POST /authenticate-artist", !.id = artist_id,
                                !.pem = public_key, !.data = challenge, !.status = 200]
        /\ UNCHANGED <<fs, made, tmpCount, reqs>>

\* POST /verify-artist-signature
api_verify_artist_signature(artist_id, challenge, signature, public_key) ==
    LET is_valid == verify_artist_signature(artist_id, challenge, signature, public_key)
        made_token == create_auth_token(srv.auth_tokens, artist_id, public_key, srv.now)
    IN  /\ is_valid.value => Cardinality(made_token.auth_tokens) <= MaxHeld
        /\ srv' = IF is_valid.value
                  THEN [srv EXCEPT !.auth_tokens = made_token.auth_tokens]
                  ELSE srv
        /\ res' = [NoRes EXCEPT !.op = "POST /verify-artist-signature",
                                !.id = artist_id, !.data = challenge, !.sig = signature,
                                !.pem = public_key,
                                !.status = IF is_valid.value THEN 200 ELSE 401,
                                !.token = IF is_valid.value THEN made_token.token
                                          ELSE NoToken]
        /\ UNCHANGED <<fs, made, tmpCount, reqs>>

\* POST /register-artist
register_artist(artist_id, public_key, auth_token) ==
    LET checked == IF auth_token # NoToken
                   THEN is_artist_authorized(srv.auth_tokens, artist_id, auth_token,
                                             srv.now)
                   ELSE [ok |-> TRUE, auth_tokens |-> srv.auth_tokens]
        success == registry_register_artist(srv.registry, artist_id, public_key)
    IN  /\ srv' = IF ~checked.ok THEN [srv EXCEPT !.auth_tokens = checked.auth_tokens]
                  ELSE [srv EXCEPT !.auth_tokens = checked.auth_tokens,
                                   !.registry = success.registry]
        /\ res' = [NoRes EXCEPT !.op = "POST /register-artist", !.id = artist_id,
                                !.pem = public_key, !.token = auth_token,
                                !.status = IF ~checked.ok THEN 401
                                           ELSE IF success.ok THEN 200 ELSE 400]
        /\ UNCHANGED <<fs, made, tmpCount, reqs>>

\* int(time.time()) moves on.
Tick ==
    /\ srv.now < MaxTime
    /\ srv' = [srv EXCEPT !.now = @ + 1]
    /\ res' = NoRes
    /\ UNCHANGED <<fs, made, tmpCount, reqs>>

\* The texts a client can sign: the challenges it was handed, and a text of
\* its own.
SignableTexts == {c[2] : c \in srv.issued} \cup {Str(<<"c">>)}

\* The tokens a client can send: those the server holds, none, and one the
\* server never made.
SendableTokens ==
    {e.token : e \in srv.auth_tokens}
        \cup {NoToken, Token(Str(<<"c">>), 0, PubPem(1))}

NextAuth ==
    \/ \E a \in Challengers : authenticate_artist(a, PubPem(1))
    \/ \E a \in Idents, c \in SignableTexts, k \in ClientKeys, pk \in PubPems :
           api_verify_artist_signature(a, c, b64encode(PssSign(k, c, 1)), pk)
    \/ \E a \in Challengers, t \in SendableTokens : register_artist(a, PubPem(1), t)
    \/ Tick

SpecAuth == Init /\ [][NextAuth]_vars

\* ---- Signed detection beside every kind of sidecar record ----

\* The record is rewritten as a JSON list, or without its signature member.
RewriteRecord(how) ==
    /\ ~Pending
    /\ Untouched
    /\ fs[MetadataPath(OutPath)].kind = "json"
    /\ fs' = IF how = "array"
             THEN [fs EXCEPT ![MetadataPath(OutPath)] = JsonArrayFile]
             ELSE [fs EXCEPT ![MetadataPath(OutPath)].doc.keys = @ \ {"signature"}]
    /\ made' = [made EXCEPT !.touched = {"record"}]
    /\ res' = [NoRes EXCEPT !.op = "tamper"]
    /\ UNCHANGED <<tmpCount, reqs, srv>>

NextSidecar ==
    \/ Return
    \/ \E s \in ConcUploads : PutAudio(s)
    \/ \E i \in Idents, k \in SignerPems : CallEmbedSigned(i, k, 1, 0)
    \/ \E i \in Idents, k \in PubPems : CallDetectSigned(OutPath, i, k)
    \/ RemoveRecord
    \/ CorruptRecord
    \/ \E h \in RecordEdits : EditRecord(h)
    \/ \E h \in {"array", "unsigned"} : RewriteRecord(h)

SpecSidecar == Init /\ [][NextSidecar]_vars

\* None, and the empty text: both are falsy in "x or default", "if x:" and "if not x:".
None == <<>>

\* ---- The standalone AudioKeyPair objects of key_pair_implementation.py ----

\* AudioKeyPair.__init__: private_key = None, public_key = None
NoKeys == [private_key |-> None, public_key |-> None]

\* secrets.token_hex(32): the n-th draw
TokenHex(n) == <<[t |-> "hex", of |-> n]>>

\* hashlib.sha256(text.encode()).hexdigest()
Sha256Hex(text) == <<[t |-> "sha256", of |-> text]>>

\* hmac.new(key.encode(), message.encode(), hashlib.sha256).hexdigest()
HmacHex(key, message) == <<[t |-> "hmac", key |-> key, message |-> message]>>

\* AudioKeyPair.generate_key_pair
generate_key_pair(n) == [private_key |-> TokenHex(n), public_key |-> Sha256Hex(TokenHex(n))]

\* AudioKeyPair.sign_watermark of the object whose keys are kp
AudioKeyPair_sign_watermark(kp, artist_id, watermark_data) ==
    IF kp.private_key = None THEN [Raised EXCEPT !.error = "ValueError"]
    ELSE Returned(HmacHex(kp.private_key, artist_id \o <<Ch(":")>> \o watermark_data))

\* AudioKeyPair.verify_signature: the signature is recomputed with
\* self.sign_watermark and compared
AudioKeyPair_verify_signature(kp, artist_id, watermark_data, signature) ==
    IF kp.public_key = None THEN [Raised EXCEPT !.error = "ValueError"]
    ELSE LET expected_signature == AudioKeyPair_sign_watermark(kp, artist_id, watermark_data)
         IN  IF expected_signature.raised THEN expected_signature
             ELSE Returned(signature = expected_signature.value)

\* The key owner and a verifier each hold one AudioKeyPair object.
InitKeyPair ==
    /\ fs = [p \in AllPaths |-> Absent]
    /\ res = NoRes
    /\ made = NoMade
    /\ tmpCount = 0
    /\ reqs = [r \in Procs |-> NoReq]
    /\ srv = [owner |-> NoKeys, verifier |-> NoKeys]

\* The owner calls key_pair.generate_key_pair().
GenerateKeyPair(n) ==
    /\ srv' = [srv EXCEPT !.owner = generate_key_pair(n)]
    /\ res' = [NoRes EXCEPT !.op = "generate_key_pair"]
    /\ UNCHANGED <<fs, made, tmpCount, reqs>>

\* The verifier calls import_keys with the owner's public key, and with the
\* private key only if the owner gave that away too.
ImportKeys(private_key, public_key) ==
    /\ public_key # None
    /\ srv' = [srv EXCEPT !.verifier =
                              [private_key |-> private_key, public_key |-> public_key]]
    /\ res' = [NoRes EXCEPT !.op = "import_keys"]
    /\ UNCHANGED <<fs, made, tmpCount, reqs>>

\* The owner calls sign_watermark(artist_id, watermark_data).
SignWatermark(artist_id, watermark_data) ==
    /\ res' = [NoRes EXCEPT !.op = "sign_watermark", !.id = artist_id,
                            !.data = watermark_data,
                            !.call = AudioKeyPair_sign_watermark(srv.owner, artist_id,
                                                                 watermark_data)]
    /\ UNCHANGED <<fs, made, tmpCount, reqs, srv>>

\* who calls verify_signature(artist_id, watermark_data, signature).
VerifySignature(who, artist_id, watermark_data, signature) ==
    /\ res' = [NoRes EXCEPT !.op = "verify_signature", !.src = who, !.id = artist_id,
                            !.data = watermark_data, !.sig = signature,
                            !.call = AudioKeyPair_verify_signature(srv[who], artist_id,
                                                                   watermark_data, signature)]
    /\ UNCHANGED <<fs, made, tmpCount, reqs, srv>>

\* The signature strings a verifier is shown: the owner's signatures, and the
\* demo's "wrong_signature_123".
ShownSignatures ==
    {HmacHex(srv.owner.private_key, i \o <<Ch(":")>> \o d) : i \in Idents, d \in Secrets}
        \cup {Str(<<"w">>)}

NextKeyPair ==
    \/ \E n \in KeyIds : GenerateKeyPair(n)
    \/ \E k \in {None, srv.owner.private_key} : ImportKeys(k, srv.owner.public_key)
    \/ \E i \in Idents, d \in Secrets : SignWatermark(i, d)
    \/ \E w \in {"owner", "verifier"}, i \in Idents, d \in Secrets, g \in ShownSignatures :
           VerifySignature(w, i, d, g)

SpecKeyPair == InitKeyPair /\ [][NextKeyPair]_vars

\* ---- The token store of one ArtistAuth object, called directly ----

\* What the calls below have handed out: the (token, artist_id) pairs
\* create_auth_token returned, and the tokens that were revoked or rejected as
\* expired. The code keeps neither.
NoTokensMade == [returned |-> {}, dead |-> {}]

InitTokens ==
    /\ fs = [p \in AllPaths |-> Absent]
    /\ res = NoRes
    /\ made = NoTokensMade
    /\ tmpCount = 0
    /\ reqs = [r \in Procs |-> NoReq]
    /\ srv = NoSrv

\* artist_auth.create_auth_token(artist_id, public_key)
CallCreateToken(artist_id, public_key) ==
    LET r == create_auth_token(srv.auth_tokens, artist_id, public_key, srv.now)
    IN  /\ Cardinality(made.returned \cup {<<r.token, artist_id>>}) <= MaxHeld
        /\ srv' = [srv EXCEPT !.auth_tokens = r.auth_tokens]
        /\ made' = [made EXCEPT !.returned = @ \cup {<<r.token, artist_id>>}]
        /\ res' = [NoRes EXCEPT !.op = "create_auth_token", !.id = artist_id,
                                !.pem = public_key, !.token = r.token]
        /\ UNCHANGED <<fs, tmpCount, reqs>>

\* artist_auth.verify_auth_token(token): the token's data or None
CallVerifyToken(token) ==
    LET r == verify_auth_token(srv.auth_tokens, token, srv.now)
    IN  /\ srv' = [srv EXCEPT !.auth_tokens = r.auth_tokens]
        /\ made' = [made EXCEPT !.dead =
                        IF r.auth_tokens # srv.auth_tokens THEN @ \cup {token} ELSE @]
        /\ res' = [NoRes EXCEPT !.op = "verify_auth_token", !.token = token,
                                !.call = Returned(r.data)]
        /\ UNCHANGED <<fs, tmpCount, reqs>>

\* artist_auth.revoke_auth_token(token)
CallRevokeToken(token) ==
    LET r == revoke_auth_token(srv.auth_tokens, token)
    IN  /\ srv' = [srv EXCEPT !.auth_tokens = r.auth_tokens]
        /\ made' = [made EXCEPT !.dead = IF r.ok THEN @ \cup {token} ELSE @]
        /\ res' = [NoRes EXCEPT !.op = "revoke_auth_token", !.token = token,
                                !.call = Returned(r.ok)]
        /\ UNCHANGED <<fs, tmpCount, reqs>>

\* artist_auth.is_artist_authorized(artist_id, token)
CallIsAuthorized(artist_id, token) ==
    LET r == is_artist_authorized(srv.auth_tokens, artist_id, token, srv.now)
    IN  /\ srv' = [srv EXCEPT !.auth_tokens = r.auth_tokens]
        /\ made' = [made EXCEPT !.dead =
                        IF r.auth_tokens # srv.auth_tokens THEN @ \cup {token} ELSE @]
        /\ res' = [NoRes EXCEPT !.op = "is_artist_authorized", !.id = artist_id,
                                !.token = token, !.call = Returned(r.ok)]
        /\ UNCHANGED <<fs, tmpCount, reqs>>

\* The tokens a caller can pass: those handed out, and one never made.
KnownTokens == {p[1] : p \in made.returned} \cup {Token(Str(<<"c">>), 0, PubPem(1))}

NextTokens ==
    \/ \E a \in Idents : CallCreateToken(a, PubPem(1))
    \/ \E t \in KnownTokens : CallVerifyToken(t)
    \/ \E t \in KnownTokens : CallRevokeToken(t)
    \/ \E a \in Idents, t \in KnownTokens : CallIsAuthorized(a, t)
    \/ Tick

SpecTokens == InitTokens /\ [][NextTokens]_vars

\* ---- One KeyRegistry object and its file, called directly ----

\* _save_registry: json.dump(self.registry) into registry_file, which the
\* open(..., 'w') replaces whole. Keys and values are texts, which JSON keeps.
SavedRegistry(registry) == [kind |-> "json", doc |-> registry]

\* _load_registry: the file's content, {} if there is none or it does not parse
LoadedRegistry(file) == IF file.kind = "json" THEN file.doc ELSE {}

\* The entry of an artist: registry[artist_id], with its key.
EntryOf(registry, artist_id) == {e \in registry : e.artist_id = artist_id}

\* x or default
Or(x, default) == IF x # None THEN x ELSE default

\* The variant that replaces an entry that exists.
RegisterOverwriting(kr, artist_id, public_key, profile, now) ==
    LET registry ==
            (kr.registry \ EntryOf(kr.registry, artist_id))
                \cup {[artist_id |-> artist_id, public_key |-> public_key,
                       artist_name |-> Or(profile.artist_name, artist_id),
                       contact_info |-> Or(profile.contact_info, None),
                       description |-> Or(profile.description, None),
                       registered_at |-> now, last_updated |-> now]}
    IN  [ok |-> TRUE, registry |-> registry, file |-> SavedRegistry(registry)]

\* KeyRegistry.register_artist: the answer, self.registry and the file
KeyRegistry_register_artist(kr, artist_id, public_key, profile, now) ==
    IF EntryOf(kr.registry, artist_id) # {}
    THEN [ok |-> FALSE, registry |-> kr.registry, file |-> kr.file]
    ELSE LET registry ==
                 kr.registry
                     \cup {[artist_id |-> artist_id, public_key |-> public_key,
                            artist_name |-> Or(profile.artist_name, artist_id),
                            contact_info |-> Or(profile.contact_info, None),
                            description |-> Or(profile.description, None),
                            registered_at |-> now, last_updated |-> now]}
         IN  [ok |-> TRUE, registry |-> registry, file |-> SavedRegistry(registry)]

\* KeyRegistry.update_artist: only the truthy arguments replace a field
KeyRegistry_update_artist(kr, artist_id, public_key, profile, now) ==
    IF EntryOf(kr.registry, artist_id) = {}
    THEN [ok |-> FALSE, registry |-> kr.registry, file |-> kr.file]
    ELSE LET registry ==
                 (kr.registry \ EntryOf(kr.registry, artist_id))
                     \cup {[e EXCEPT !.public_key = Or(public_key, @),
                                     !.artist_name = Or(profile.artist_name, @),
                                     !.contact_info = Or(profile.contact_info, @),
                                     !.description = Or(profile.description, @),
                                     !.last_updated = now] :
                              e \in EntryOf(kr.registry, artist_id)}
         IN  [ok |-> TRUE, registry |-> registry, file |-> SavedRegistry(registry)]

\* The variant that deletes the entry and leaves the file as it was.
DeleteUnsaved(kr, artist_id) ==
    IF EntryOf(kr.registry, artist_id) = {}
    THEN [ok |-> FALSE, registry |-> kr.registry, file |-> kr.file]
    ELSE [ok |-> TRUE, registry |-> kr.registry \ EntryOf(kr.registry, artist_id),
          file |-> kr.file]

\* KeyRegistry.delete_artist
KeyRegistry_delete_artist(kr, artist_id) ==
    IF EntryOf(kr.registry, artist_id) = {}
    THEN [ok |-> FALSE, registry |-> kr.registry, file |-> kr.file]
    ELSE LET registry == kr.registry \ EntryOf(kr.registry, artist_id)
         IN  [ok |-> TRUE, registry |-> registry, file |-> SavedRegistry(registry)]

\* str.lower() on the letters the model writes
Lower(text) ==
    [i \in 1..Len(text) |-> IF text[i] = Ch("A") THEN Ch("a") ELSE text[i]]

\* query in text
Contains(text, query) ==
    \E i \in 0..(Len(text) - Len(query)) :
        \A k \in 1..Len(query) : text[i + k] = query[k]

\* KeyRegistry.search_artists
search_artists(registry, query) ==
    {[artist_id |-> e.artist_id, artist_name |-> e.artist_name,
      contact_info |-> e.contact_info, description |-> e.description,
      registered_at |-> e.registered_at] :
        e \in {m \in registry :
                  \/ Contains(Lower(m.artist_id), Lower(query))
                  \/ Contains(Lower(m.artist_name), Lower(query))
                  \/ Contains(Lower(m.description), Lower(query))}}

\* KeyRegistry.list_artists
list_artists(registry) ==
    {[artist_id |-> e.artist_id, artist_name |-> e.artist_name,
      contact_info |-> e.contact_info, description |-> e.description,
      registered_at |-> e.registered_at, last_updated |-> e.last_updated] :
        e \in registry}

\* The optional arguments of a call: all left out, or all given.
NoProfile == [artist_name |-> None, contact_info |-> None, description |-> None]

Profiles ==
    {NoProfile,
     [artist_name |-> Str(<<"n">>), contact_info |-> Str(<<"c">>),
      description |-> Str(<<"d">>)]}

\* A registry file an earlier process left behind.
EarlierRegistry ==
    {[artist_id |-> Str(<<"a">>), public_key |-> PubPem(1),
      artist_name |-> Str(<<"a">>), contact_info |-> None, description |-> None,
      registered_at |-> 0, last_updated |-> 0]}

\* registry = KeyRegistry(): the file is absent, holds an earlier registry, or
\* does not parse.
InitRegistry ==
    /\ fs = [p \in AllPaths |-> Absent]
    /\ res = NoRes
    /\ made = NoMade
    /\ tmpCount = 0
    /\ reqs = [r \in Procs |-> NoReq]
    /\ \E file \in {Absent, SavedRegistry(EarlierRegistry), UnreadableJson} :
           srv = [registry |-> LoadedRegistry(file), file |-> file, now |-> 0]

\* registry.register_artist(artist_id, public_key, ...)
CallRegister(artist_id, public_key, profile) ==
    LET r == KeyRegistry_register_artist(srv, artist_id, public_key, profile, srv.now)
    IN  /\ srv' = [srv EXCEPT !.registry = r.registry, !.file = r.file]
        /\ res' = [NoRes EXCEPT !.op = "register_artist", !.id = artist_id,
                                !.pem = public_key, !.data = profile.artist_name,
                                !.call = Returned(r.ok)]
        /\ UNCHANGED <<fs, made, tmpCount, reqs>>

\* registry.update_artist(artist_id, public_key, ...)
CallUpdate(artist_id, public_key, profile) ==
    LET r == KeyRegistry_update_artist(srv, artist_id, public_key, profile, srv.now)
    IN  /\ srv' = [srv EXCEPT !.registry = r.registry, !.file = r.file]
        /\ res' = [NoRes EXCEPT !.op = "update_artist", !.id = artist_id,
                                !.call = Returned(r.ok)]
        /\ UNCHANGED <<fs, made, tmpCount, reqs>>

\* registry.delete_artist(artist_id)
CallDelete(artist_id) ==
    LET r == KeyRegistry_delete_artist(srv, artist_id)
    IN  /\ srv' = [srv EXCEPT !.registry = r.registry, !.file = r.file]
        /\ res' = [NoRes EXCEPT !.op = "delete_artist", !.id = artist_id,
                                !.call = Returned(r.ok)]
        /\ UNCHANGED <<fs, made, tmpCount, reqs>>

\* registry.get_artist_key(artist_id): self.registry.get(artist_id)
CallGetKey(artist_id) ==
    /\ res' = [NoRes EXCEPT !.op = "get_artist_key", !.id = artist_id,
                            !.call = Returned(EntryOf(srv.registry, artist_id))]
    /\ UNCHANGED <<fs, made, tmpCount, reqs, srv>>

\* registry.list_artists()
CallList ==
    /\ res' = [NoRes EXCEPT !.op = "list_artists",
                            !.call = Returned(list_artists(srv.registry))]
    /\ UNCHANGED <<fs, made, tmpCount, reqs, srv>>

\* registry.search_artists(query)
CallSearch(query) ==
    /\ res' = [NoRes EXCEPT !.op = "search_artists", !.data = query,
                            !.call = Returned(search_artists(srv.registry, query))]
    /\ UNCHANGED <<fs, made, tmpCount, reqs, srv>>

NextRegistry ==
    \/ \E a \in Idents, pk \in PubPems, p \in Profiles : CallRegister(a, pk, p)
    \/ \E a \in Idents, pk \in {None, PubPem(2)} : CallUpdate(a, pk, NoProfile)
    \/ \E a \in Idents : CallDelete(a)
    \/ \E a \in Idents : CallGetKey(a)
    \/ CallList
    \/ \E q \in {Str(<<"A">>), Str(<<"d">>)} : CallSearch(q)
    \/ Tick

SpecRegistry == InitRegistry /\ [][NextRegistry]_vars

\* ---- POST /register-verified-artist ----

\* A JSON string value, cut where the code looks at it: "spotify:artist:4x"
\* is <<"spotify:artist:", "4x">>. A number is a value that is no string.
JsonStr(words) == [t |-> "str", words |-> words]

JsonNum(n) == [t |-> "num", n |-> n]

\* The verification_data texts a client sends: a JSON object (its members as
\* key-value pairs), a JSON array, and a text that is no JSON.
JsonObject(members) == [kind |-> "object", doc |-> members]

JsonArray == [kind |-> "array", doc |-> {}]

NoJson == [kind |-> "invalid", doc |-> {}]

\* json.loads(verification_data): JSONDecodeError for a text that is no JSON
json_loads(text) ==
    IF text.kind = "invalid" THEN [raised |-> TRUE, value |-> text]
    ELSE [raised |-> FALSE, value |-> text]

\* verification_methods: the field each method reads and the beginning it
\* asks of the value ("manual" asks for the whole code)
verification_methods ==
    [spotify |-> [field |-> "spotify_artist_id", starts |-> "spotify:artist:"],
     youtube |-> [field |-> "youtube_channel_id", starts |-> "UC"],
     twitter |-> [field |-> "twitter_username", starts |-> "@"],
     instagram |-> [field |-> "instagram_username", starts |-> "@"],
     manual |-> [field |-> "manual_verification_code", starts |-> "VERIFY_ARTIST_2024"]]

\* verify_spotify_artist ... verify_manual_artist: .get on a value that is
\* no object and .startswith on a value that is no string raise inside the
\* try and are answered verified = False; a missing or empty value is
\* answered "... required"
verify_by(method, verification_data) ==
    LET m == verification_methods[method]
        found == {kv \in verification_data.doc : kv[1] = m.field}
    IN  [verified |->
             /\ verification_data.kind = "object"
             /\ \E kv \in found :
                    /\ kv[2].t = "str"
                    /\ kv[2].words # <<>>
                    /\ kv[2].words[1] = m.starts
                    /\ (method = "manual" => Len(kv[2].words) = 1)]

\* ArtistVerification.verify_artist
verify_artist(artist_id, verification_method, verification_data) ==
    IF verification_method \notin DOMAIN verification_methods
    THEN [verified |-> FALSE]
    ELSE verify_by(verification_method, verification_data)

\* The variant that registers whatever the verification said.
NeverFailed(verification_result) == FALSE

\* if not verification_result["verified"]: answer 400
VerificationFailed(verification_result) == ~verification_result.verified

\* POST /register-verified-artist
register_verified_artist(artist_id, public_key, profile, verification_method, verification_data) ==
    LET parsed == json_loads(verification_data)
        verification_result == verify_artist(artist_id, verification_method, parsed.value)
        success == KeyRegistry_register_artist(srv, artist_id, public_key, profile, srv.now)
        refused == parsed.raised \/ VerificationFailed(verification_result)
    IN  /\ srv' = IF refused THEN srv
                  ELSE [srv EXCEPT !.registry = success.registry, !.file = success.file]
        /\ res' = [NoRes EXCEPT !.op = "POST /register-verified-artist",
                                !.id = artist_id, !.pem = public_key,
                                !.src = verification_method, !.data = verification_data,
                                !.status = IF refused \/ ~success.ok THEN 400 ELSE 200]
        /\ UNCHANGED <<fs, made, tmpCount, reqs>>

\* What clients send as verification_method and verification_data.
SentMethods == DOMAIN verification_methods \cup {"email"}

SentData ==
    {NoJson, JsonArray, JsonObject({}),
     JsonObject({<<"spotify_artist_id", JsonStr(<<"spotify:artist:", "4x">>)>>}),
     JsonObject({<<"spotify_artist_id", JsonStr(<<"4x">>)>>}),
     JsonObject({<<"spotify_artist_id", JsonNum(4)>>}),
     JsonObject({<<"twitter_username", JsonStr(<<"@", "x">>)>>}),
     JsonObject({<<"manual_verification_code", JsonStr(<<"VERIFY_ARTIST_2024">>)>>}),
     JsonObject({<<"manual_verification_code", JsonStr(<<"VERIFY_ARTIST_2024", "x">>)>>})}

NextVerified ==
    \/ \E a \in Idents, m \in SentMethods, d \in SentData :
           register_verified_artist(a, PubPem(1), NoProfile, m, d)
    \/ Tick

SpecVerified == InitRegistry /\ [][NextVerified]_vars

(***************************************************************************)
(* Properties of the embedder, the detector and the signature service.     *)
(***************************************************************************)
Silent(num) == SeqMaxAbs(num) = 0

DetectedSigned == res.op = "detectSigned" /\ ~res.out.raised

DetectedPlain == res.op = "detect" /\ ~res.out.raised

\* The public key that belongs to the private key the embedding signed with.
MatchingKey == made.pem.fmt = "pkcs8" /\ res.pem = PubPem(made.pem.key)

\* C1: signed detection returns verified = TRUE exactly when signature_valid
\* is TRUE and the correlation it computed is strictly above 0.001; verified
\* is never TRUE with signature_valid FALSE.
C1_VerifiedIffSignatureAndCorrelation ==
    DetectedSigned =>
        /\ res.out.verified <=> (res.out.signature_valid /\ ExceedsThreshold(res.out.corr))
        /\ ~res.out.signature_valid => ~res.out.verified

\* A signed detection whose correlation is above the threshold and whose
\* signature check failed.
C1_Witness ==
    /\ DetectedSigned
    /\ ~res.out.signature_valid
    /\ ExceedsThreshold(res.out.corr)
    /\ ~res.out.verified

\* C2: signed round trip: detecting the untouched output of a signed embedding
\* of a non-silent recording, with the same identity, the matching public key
\* and the record that embedding wrote, yields signature_valid and verified.
C2_SignedRoundTrip ==
    (/\ DetectedSigned
     /\ made.kind = "signed" /\ made.touched = {}
     /\ ~Silent(made.signal)
     /\ res.id = made.id /\ MatchingKey)
        => (res.out.signature_valid /\ res.out.verified)

\* C3: unsigned round trip: detecting the untouched output of an embedding of a
\* non-silent recording with the same identity and secret yields verified.
C3_UnsignedRoundTrip ==
    (/\ DetectedPlain
     /\ made.kind = "plain" /\ made.touched = {}
     /\ ~Silent(made.signal)
     /\ res.id = made.id /\ res.secret = made.secret)
        => res.out.verified

\* C4: on an all-zero signal every embedding and every detection ends in an
\* error: an embedding writes no file, a detection returns no verdict.
C4_SilentInputIsFatal ==
    /\ (res.op \in {"embed", "embedSigned"} /\ fs[InPath].kind = "audio"
           /\ Silent(fs[InPath].num))
          => (res.call.raised /\ res.wrote = {})
    /\ (res.op \in {"detect", "detectSigned"} /\ fs[res.path].kind = "audio"
           /\ Silent(fs[res.path].num))
          => res.out.raised

\* C5: signed detection of a file for which no record exists does not end
\* in an ordinary (verified, score, signature_valid) verdict.
C5_NoRecordIsDistinct ==
    (res.op = "detectSigned" /\ fs[res.path].kind = "audio"
        /\ fs[MetadataPath(res.path)].kind = "absent")
        => res.out.raised

\* Candidate files that differ from the one detection ran on: its edits and
\* the recording before the watermark was mixed in.
OtherCandidates ==
    {EditAudio(fs[res.path], h) : h \in AudioEdits}
        \cup {AudioFile(Samples(made.signal))}

\* C7: signature_valid does not depend on the candidate samples: with the
\* identity, the public key and the record unchanged, any other candidate
\* audio gives the same signature_valid, and changed audio next to the
\* untouched record of a signed embedding still gives signature_valid = TRUE
\* under the matching key.
C7_SignatureValidIgnoresAudio ==
    (DetectedSigned /\ made.kind = "signed") =>
        /\ \A c \in OtherCandidates :
               detect_watermark_with_signature([fs EXCEPT ![res.path] = c], res.path,
                                               res.id, res.pem).signature_valid
                   = res.out.signature_valid
        /\ (made.touched = {"audio"} /\ res.id = made.id /\ MatchingKey)
               => res.out.signature_valid

\* Signed detection of changed audio next to the untouched record, under the
\* matching key: the signature is reported valid, the watermark is not found.
C7_Witness ==
    /\ DetectedSigned
    /\ made.kind = "signed" /\ made.touched = {"audio"}
    /\ ~Silent(fs[res.path].num)
    /\ res.id = made.id /\ MatchingKey
    /\ res.out.signature_valid
    /\ ~res.out.verified

\* C8: after the signature field of the record of a signed embedding is
\* changed to a different value, signed detection reports signature_valid
\* FALSE.
C8_ChangedSignatureIsInvalid ==
    (DetectedSigned /\ made.kind = "signed" /\ made.touched = {"signature"})
        => ~res.out.signature_valid

\* The signature text decodes and its bytes verify under the key the PEM text
\* holds, for the given message.
ValidFor(signature, message, pem) ==
    /\ pem.fmt = "spki"
    /\ b64decode(signature).ok
    /\ b64decode(signature).bytes = PssSign(pem.key, message, b64decode(signature).bytes.salt)

\* C9 as stated: verification never raises, and each of the three functions
\* returns TRUE only for a signature valid for identity + ":" + fingerprint.
C9_TrueOnlyForIdentityMessage ==
    (res.op \in {"verify", "verifyArtist"}) =>
        /\ ~res.call.raised
        /\ res.call.value => ValidFor(res.sig, Message(res.id, res.data), res.pem)

\* C9 as amended: verification never raises; verify_signature and
\* verify_watermark_signature return TRUE only for a signature valid for
\* identity + ":" + fingerprint, and verify_artist_signature returns TRUE only
\* for a signature valid for the challenge text alone.
C9_VerifyNeverRaises ==
    /\ (res.op \in {"verify", "verifyArtist"}) => ~res.call.raised
    /\ (res.op = "verify" /\ res.call.value)
          => ValidFor(res.sig, Message(res.id, res.data), res.pem)
    /\ (res.op = "verifyArtist" /\ res.call.value)
          => ValidFor(res.sig, res.data, res.pem)

\* A verification handed a key that does not parse or a signature that does
\* not decode, which returned FALSE.
C9_Witness ==
    /\ res.op \in {"verify", "verifyArtist"}
    /\ (res.pem.fmt # "spki" \/ ~b64decode(res.sig).ok)
    /\ ~res.call.raised
    /\ ~res.call.value

C6_RecordLocatedByLaterVerify ==
    (/\ res.op = "POST /verify-cryptographic"
     /\ fs[MetadataPath(res.src)].kind = "json")
        => (res.status = 200 /\ res.out.found)

\* The record beside the file the last detection ran on.
RecordOf(path) == fs[MetadataPath(path)]

\* C11: signed detection seeds the pattern from identity + record.signature
\* exactly when signature_valid is TRUE and from identity + "fallback" in every
\* other case (no record, unreadable record, invalid signature); it never
\* fails on a record that was not loaded.
C11_SeedMaterialFollowsSignatureValid ==
    (res.op = "detectSigned" /\ fs[res.path].kind = "audio") =>
        /\ ~res.out.raised
        /\ res.out.signature_valid =>
               /\ RecordOf(res.path).kind = "json"
               /\ res.out.material = RecordOf(res.path).doc.signature
        /\ ~res.out.signature_valid => res.out.material = Fallback
        /\ res.out.pattern = DetectSignedPattern(res.id, res.out.material,
                                                  Len(fs[res.path].num))

\* A detection beside a readable record whose signature did not verify, which
\* used the fallback material although the record holds a signature.
C11_Witness ==
    /\ DetectedSigned
    /\ RecordOf(res.path).kind = "json"
    /\ "signature" \in RecordOf(res.path).doc.keys
    /\ RecordOf(res.path).doc.signature # <<>>
    /\ ~res.out.signature_valid
    /\ res.out.material = Fallback

\* What the signature service answers for the record's fingerprint and
\* signature under the key the detection was given.
ServiceVerdict ==
    LET doc == RecordOf(res.path).doc
    IN  verify_watermark_signature(res.id, Get(doc, "audio_hash", <<>>),
                                   Get(doc, "signature", <<>>), res.pem).value

\* C12 as stated: for a located, readable record signature_valid equals the
\* service's verify(identity, fingerprint, signature, key), whatever the
\* artist identifier and the watermark kind of the record.
C12_SignatureValidIsServiceVerify ==
    (DetectedSigned /\ RecordOf(res.path).kind = "json")
        => res.out.signature_valid = ServiceVerdict

\* C12 as amended: for a located, readable record signature_valid equals that
\* verify when the record's kind is "cryptographic", whatever its artist
\* identifier, and is FALSE for a record of any other kind.
C12_SignatureValidForCryptographicKind ==
    (DetectedSigned /\ RecordOf(res.path).kind = "json") =>
        res.out.signature_valid =
            (/\ Get(RecordOf(res.path).doc, "watermark_type", "") = "cryptographic"
             /\ ServiceVerdict)

\* A detection beside a record that names another artist, found valid.
C12_Witness ==
    /\ DetectedSigned
    /\ made.touched = {"field"}
    /\ RecordOf(res.path).kind = "json"
    /\ RecordOf(res.path).doc.artist_id # res.id
    /\ res.out.signature_valid

\* The Pearson coefficient of the candidate the last detection ran on with
\* the pattern that detection generated.
CandidateCorrcoef ==
    Corrcoef(Normalize(Loaded(fs[res.path])), res.out.pattern)

\* C13: the score of signed detection is (correlation + b) / 2 with b = 1 if
\* signature_valid and 0 otherwise, the correlation being the Pearson
\* coefficient with NaN replaced by 0, the same value the threshold test of
\* verified uses.
C13_SignedScoreIsHalfSum ==
    DetectedSigned =>
        LET correlation == IF CandidateCorrcoef.nan THEN ZeroCorr ELSE CandidateCorrcoef
            b == IF res.out.signature_valid THEN 1 ELSE 0
        IN  /\ res.out.score = [corr |-> correlation, add |-> b, div |-> 2]
            /\ res.out.verified =
                   (res.out.signature_valid /\ ExceedsThreshold(res.out.score.corr))

\* A signed detection with a valid signature and a defined, non-zero
\* correlation below the threshold.
C13_Witness ==
    /\ DetectedSigned
    /\ res.out.signature_valid
    /\ ~res.out.nanCorr
    /\ res.out.score.corr.c < 0
    /\ res.out.score.add = 1

\* C14: unsigned detection reports an undefined correlation as score 0.0 with
\* verified FALSE, and a defined correlation c as score c with verified =
\* (c > 0.001); a correlation of exactly 0.001 or below zero is not verified.
C14_UnsignedNaNAndThreshold ==
    /\ DetectedPlain =>
          IF CandidateCorrcoef.nan
          THEN res.out.score = [corr |-> ZeroCorr, add |-> 0, div |-> 1]
                   /\ ~res.out.verified
          ELSE /\ res.out.score = [corr |-> CandidateCorrcoef, add |-> 0, div |-> 1]
               /\ res.out.verified = ExceedsThreshold(CandidateCorrcoef)
               /\ CandidateCorrcoef.c <= 0 => ~res.out.verified
    /\ ~ExceedsThreshold([nan |-> FALSE, c |-> ThresholdNum,
                           vy |-> ThresholdDen, vp |-> ThresholdDen])

\* An unsigned detection of a constant, non-silent candidate: the correlation
\* is undefined.
C14_Witness ==
    /\ DetectedPlain
    /\ ~Silent(fs[res.path].num)
    /\ res.out.nanCorr
    /\ ~res.out.verified

\* C15: the record a signed embedding emits holds the hash of the normalised
\* signal before the watermark is mixed in, the very signature whose
\* concatenation with the identity seeded the embedded pattern (a signature of
\* identity and that hash), the identity argument as artist identifier and the
\* kind "cryptographic"; the output holds the normalised signal mixed with
\* that pattern.
C15_RecordMatchesEmbedding ==
    (res.op = "embedSigned" /\ ~res.call.raised) =>
        LET doc == fs[MetadataPath(res.path)].doc
            y == Normalize(Loaded(fs[InPath]))
            pattern == StandardNormal(SeedOf(res.id \o doc.signature), Len(y.num))
        IN  /\ fs[MetadataPath(res.path)].kind = "json"
            /\ doc.keys = MetadataKeys
            /\ doc.audio_hash = BufferDigest(y)
            /\ doc.signature =
                   b64encode(PssSign(res.pem.key, Message(res.id, doc.audio_hash),
                                     made.salt))
            /\ doc.signature = made.material
            /\ pattern = made.pattern
            /\ \E v \in NaNAsPcm : fs[res.path] = SfWrite(Mix(y, pattern), v)
            /\ doc.artist_id = res.id
            /\ doc.watermark_type = "cryptographic"

\* A signed embedding of a recording whose peak is not 1, so that the
\* normalised buffer differs from the loaded one.
C15_Witness ==
    /\ res.op = "embedSigned" /\ ~res.call.raised
    /\ SeqMaxAbs(fs[InPath].num) = 2
    /\ fs[MetadataPath(res.path)].kind = "json"
    /\ fs[res.path].kind = "audio"

DetectOps == {"detect", "detectSigned", "detectHybrid"}

\* The calls of the program that are not embed_watermark_with_signature.
OtherCalls == DetectOps \cup {"embed", "verify", "verifyArtist"}

RecordPaths == {MetadataPath(p) : p \in AudioPaths}

\* C16: a record is written by signed embedding alone and no detection
\* changes a file: every step of detect_watermark,
\* detect_watermark_with_signature or detect_watermark_hybrid leaves each
\* record and the candidate audio as they were, whatever the verdict, and
\* no call other than signed embedding changes a record.
C16_DetectionLeavesFilesUnchanged ==
    [][/\ res'.op \in DetectOps => fs' = fs
       /\ res'.op \in OtherCalls => \A p \in RecordPaths : fs'[p] = fs[p]]_vars

\* A hybrid detection that found the record valid, the record still in place.
C16_Witness ==
    /\ res.op = "detectHybrid"
    /\ res.out.method = "cryptographic"
    /\ RecordOf(res.path).kind = "json"
    /\ fs[res.path].kind = "audio"

\* C17: a signed embedding given a private key that does not parse fails with
\* the error InvalidKeyError and writes neither the output nor a record.
C17_BadKeyIsInvalidKeyError ==
    (res.op = "embedSigned" /\ res.pem.fmt # "pkcs8" /\ fs[InPath].kind = "audio")
        => /\ res.call.raised
           /\ res.call.error = "InvalidKeyError"
           /\ res.wrote = {}

NoFile == [p \in AllPaths |-> Absent]

\* The files a handler holds alone after it saved the upload of request q.
AloneFiles(q) == [NoFile EXCEPT ![TmpPath(1)] = AudioFile(Samples(q.upload))]

\* What the embedding handler does with the upload of q when it runs alone.
AloneEmbedding(q) ==
    embed_watermark_with_signature(AloneFiles(q), TmpPath(1), MarkedPath(TmpPath(1)),
                                   q.id, q.pem, 1, 0)

\* The verdict of the verifying handler for the upload of q when it runs alone.
AloneVerdict(q) ==
    detect_watermark_with_signature(AloneFiles(q), TmpPath(1), q.id, q.pem)

\* The files a request with temp name path reads or writes.
Own(path) ==
    {path, MetadataPath(path), MarkedPath(path), MetadataPath(MarkedPath(path))}

\* A finished request answered as its handler answers when it runs alone.
AnsweredAsAlone(q) ==
    IF q.kind = "embed"
    THEN /\ q.status = IF AloneEmbedding(q).raised THEN 500 ELSE 200
         /\ q.status = 200 =>
               /\ fs[MarkedPath(q.path)] = AloneEmbedding(q).fs[MarkedPath(TmpPath(1))]
               /\ fs[MetadataPath(MarkedPath(q.path))] =
                      AloneEmbedding(q).fs[MetadataPath(MarkedPath(TmpPath(1)))]
    ELSE /\ q.status = IF AloneVerdict(q).raised THEN 500 ELSE 200
         /\ q.status = 200 => q.out = AloneVerdict(q)

\* C18: requests handled at once need no coordination: under every
\* interleaving of their steps each request changes only its own temp file,
\* output and record, no two requests own a file in common, and a finished
\* request has the result its handler gives when it runs alone.
C18_RequestsDoNotInterfere ==
    /\ [](\A r \in Procs : reqs[r].pc = "done" => AnsweredAsAlone(reqs[r]))
    /\ [](\A r, q \in Procs :
             (r # q /\ reqs[r].pc # "idle" /\ reqs[q].pc # "idle")
                 => Own(reqs[r].path) \cap Own(reqs[q].path) = {})
    /\ [][\A p \in AllPaths :
             fs'[p] # fs[p] =>
                 \E r \in Procs : reqs'[r] # reqs[r] /\ p \in Own(reqs'[r].path)]_vars

\* An embedding and a verification, interleaved, both answered 200 for
\* different uploads.
C18_Witness ==
    /\ reqs[1].kind = "embed" /\ reqs[2].kind = "verify"
    /\ reqs[1].pc = "done" /\ reqs[2].pc = "done"
    /\ reqs[1].status = 200 /\ reqs[2].status = 200
    /\ reqs[1].upload # reqs[2].upload
    /\ reqs[1].path = TmpPath(2)

\* The token the last request carried is held by the server, is not expired
\* and was issued for the artist the request names.
CarriedValidToken ==
    /\ res.token # NoToken
    /\ \E e \in srv.auth_tokens :
           /\ e.token = res.token
           /\ e.artist_id = res.id
           /\ srv.now <= e.expires_at

\* C19: POST /register-artist adds an entry only for a request that carries a
\* token that is valid now and was issued for that artist_id.
C19_RegistrationRequiresToken ==
    (res.op = "POST /register-artist" /\ res.status = 200) => CarriedValidToken

\* C20: POST /verify-artist-signature issues a token for an artist only for a
\* signature over a challenge that POST /authenticate-artist generated for
\* that artist before.
C20_TokenOnlyForIssuedChallenge ==
    (res.op = "POST /verify-artist-signature" /\ res.status = 200)
        => <<res.id, res.data>> \in srv.issued

\* C26: the pattern depends on identity and secret through their
\* concatenation alone: a pair (identity2, secret2) with identity2 + secret2 =
\* identity + secret gives the same pattern, and unsigned detection with it
\* returns the same (verified, score) on the same file.
C26_ConcatenationDecidesPattern ==
    DetectedPlain =>
        \A i \in Idents, k \in Secrets :
            (i \o k = res.id \o res.secret) =>
                LET other == detect_watermark(fs, res.path, i, k)
                IN  /\ other.pattern = res.out.pattern
                    /\ other.verified = res.out.verified
                    /\ other.score = res.out.score
                    /\ EmbedPattern(i, k, Len(res.out.pattern)) = res.out.pattern

\* A file marked for one (identity, secret) and verified with another pair
\* that has the same concatenation.
C26_Witness ==
    /\ DetectedPlain
    /\ made.kind = "plain" /\ made.touched = {}
    /\ res.id # made.id /\ res.secret # made.secret
    /\ res.id \o res.secret = made.id \o made.secret
    /\ res.out.verified

\* (corr + add) / div > p / q for a returned score, corr being
\* c / sqrt(vy * vp); p * div - add * q is not negative here.
ScoreAbove(score, p, q) ==
    LET a == p * score.div - score.add * q
    IN  /\ score.corr.c > 0
        /\ (a = 0 \/ RatLess(a * score.corr.vy, q * score.corr.c,
                             q * score.corr.c, a * score.corr.vp))

LiveData(token) == {e \in srv.auth_tokens : e.token = token /\ srv.now <= e.expires_at}

\* C22: a token that was revoked, or rejected as expired, stays dead: every
\* later verify_auth_token of it returns None and every later
\* revoke_auth_token of it returns False.
C22_DeadTokenStaysDead ==
    [][ \A t \in made.dead :
            /\ CallVerifyToken(t) => res'.call.value = {}
            /\ CallRevokeToken(t) => res'.call.value = FALSE ]_vars

\* The part of C22 the code keeps: verify_auth_token returns the data of a
\* token exactly when the store holds it and it is at most TokenTtl old, the
\* store holds only tokens create_auth_token returned, and a token rejected as
\* expired has left the store.
C22_VerifyReturnsLiveData ==
    /\ \A e \in srv.auth_tokens :
            /\ <<e.token, e.artist_id>> \in made.returned
            /\ e.expires_at = e.created_at + TokenTtl
    /\ res.op = "verify_auth_token" =>
            /\ res.call.value = LiveData(res.token)
            /\ \A e \in srv.auth_tokens : e.token = res.token => srv.now <= e.expires_at

\* C23: is_artist_authorized returns True only for a token the store holds,
\* that has not expired, and that create_auth_token returned for exactly this
\* artist_id and for no other.
C23_TokenAuthorizesItsArtistOnly ==
    (res.op = "is_artist_authorized" /\ res.call.value) =>
        /\ LiveData(res.token) # {}
        /\ \A p \in made.returned : p[1] = res.token => p[2] = res.id

\* A token of one artist was presented for the other artist after tokens were
\* made for both, and refused.
C23_Witness ==
    /\ res.op = "is_artist_authorized" /\ ~res.call.value
    /\ LiveData(res.token) # {}
    /\ \E p \in made.returned : p[1] = res.token /\ p[2] # res.id
    /\ \E p \in made.returned : p[2] = res.id

\* The registry and its file are as they were before the step.
RegistryKept == srv'.registry = srv.registry /\ srv'.file = srv.file

\* C21: register_artist returns True and stores the entry when artist_id is
\* not registered; it returns False and leaves the registry and the file
\* unchanged when it is; a register call changes no entry that exists, so
\* through register calls an artist's public key stays the one of the first
\* successful registration.
C21_RegistrationIsFirstComeOnly ==
    [][ res'.op = "register_artist" =>
            IF EntryOf(srv.registry, res'.id) # {}
            THEN res'.call.value = FALSE /\ RegistryKept
            ELSE /\ res'.call.value = TRUE
                 /\ \E e \in EntryOf(srv'.registry, res'.id) :
                        /\ e.public_key = res'.pem
                        /\ e.artist_name = Or(res'.data, res'.id)
                        /\ e.registered_at = srv.now /\ e.last_updated = srv.now
                 /\ srv'.registry \ EntryOf(srv'.registry, res'.id) = srv.registry
                 /\ srv'.file = SavedRegistry(srv'.registry) ]_vars

\* A second registration with another key was refused and the first key is
\* still the artist's.
C21_Witness ==
    /\ res.op = "register_artist" /\ ~res.call.value
    /\ \E e \in srv.registry :
           /\ e.artist_id = res.id /\ e.public_key # res.pem
           /\ e.registered_at < srv.now

\* C28: after a register_artist, update_artist or delete_artist call that
\* returned True the file holds exactly the in-memory registry; a call that
\* returned False, and get_artist_key, list_artists and search_artists,
\* change neither the registry nor the file.
C28_FileFollowsRegistry ==
    /\ []((res.op \in {"register_artist", "update_artist", "delete_artist"}
               /\ res.call.value = TRUE)
             => srv.file = SavedRegistry(srv.registry))
    /\ [][ (\/ res'.op \in {"get_artist_key", "list_artists", "search_artists"}
            \/ /\ res'.op \in {"register_artist", "update_artist", "delete_artist"}
               /\ res'.call.value = FALSE)
               => RegistryKept ]_vars

\* An artist was deleted while another is registered, and the file holds
\* what is left.
C28_Witness ==
    /\ res.op = "delete_artist" /\ res.call.value = TRUE
    /\ srv.registry # {}
    /\ srv.file = SavedRegistry(srv.registry)

\* C25: POST /register-verified-artist adds an artist only when verify_artist
\* answered verified = true for the method and data sent; verification data
\* that is no JSON, an unknown method and a failed verification are answered
\* with an error and leave the registry and its file unchanged.
C25_RegistersVerifiedArtistsOnly ==
    [][ res'.op = "POST /register-verified-artist" =>
            LET verified ==
                    /\ res'.data.kind # "invalid"
                    /\ res'.src \in {"spotify", "youtube", "twitter", "instagram", "manual"}
                    /\ verify_artist(res'.id, res'.src, res'.data).verified
            IN  /\ ~verified => (res'.status >= 400 /\ RegistryKept)
                /\ ~RegistryKept =>
                       /\ verified /\ res'.status = 200
                       /\ EntryOf(srv.registry, res'.id) = {}
                       /\ \E e \in EntryOf(srv'.registry, res'.id) :
                              e.public_key = res'.pem ]_vars

\* A request whose verification failed was refused while the artist was not
\* registered, after another verified artist had been registered.
C25_Witness ==
    /\ res.op = "POST /register-verified-artist" /\ res.status = 400
    /\ res.src = "spotify" /\ res.data.kind = "object"
    /\ ~verify_artist(res.id, res.src, res.data).verified
    /\ EntryOf(srv.registry, res.id) = {}
    /\ \E e \in srv.registry : e.registered_at > 0

\* C29: a handler that saved its upload to a temp file has removed that file
\* by the time it returns its response, whether it answers 200 or 500.
C29_TempInputRemoved ==
    res.op \in {"POST /embed-cryptographic", "POST /verify-cryptographic"} =>
        fs[TmpPath(tmpCount)].kind = "absent"

\* C30: in detect_watermark_with_signature signature_valid is TRUE only if
\* the sidecar file exists, holds a JSON object of watermark_type
\* "cryptographic" and has a signature member; beside no sidecar, an
\* unreadable one or one that holds no object, signature_valid is FALSE, the
\* fallback seed is used and the function returns a verdict.
C30_SignatureValidNeedsSignedRecord ==
    res.op = "detectSigned" =>
        LET record == RecordOf(res.path)
        IN  /\ ~res.out.raised
            /\ res.out.signature_valid =>
                   /\ record.kind = "json"
                   /\ IsCryptographic(record.doc)
                   /\ "signature" \in record.doc.keys
            /\ record.kind \in {"absent", "badjson", "array"} =>
                   /\ ~res.out.signature_valid
                   /\ res.out.material = Fallback
                   /\ res.out.bound = (record.kind = "array")

\* A detection beside a sidecar that holds a JSON list, with the key that
\* made the signature: a verdict with signature_valid FALSE.
C30_Witness ==
    /\ res.op = "detectSigned" /\ ~res.out.raised
    /\ RecordOf(res.path).kind = "array"
    /\ MatchingKey /\ res.id = made.id
    /\ ~res.out.signature_valid

\* C24: a verifier that imported only the owner's public key obtains True
\* from verify_signature for the owner's signature of the same (artist_id,
\* watermark_data), and False for any other signature string.
C24_PublicKeyAloneVerifies ==
    (/\ res.op = "verify_signature" /\ res.src = "verifier"
     /\ srv.verifier.private_key = None
     /\ srv.verifier.public_key = srv.owner.public_key)
        => /\ ~res.call.raised
           /\ res.call.value =
                  (res.sig = AudioKeyPair_sign_watermark(srv.owner, res.id, res.data).value)

\* What the code does for that verifier: verify_signature raises ValueError,
\* whatever the signature; an object that holds the private key answers True
\* for the owner's signature of the same pair and False for the others.
C24_VerifierNeedsPrivateKey ==
    res.op = "verify_signature" =>
        IF srv[res.src].public_key = None \/ srv[res.src].private_key = None
        THEN res.call.raised /\ res.call.error = "ValueError"
        ELSE /\ ~res.call.raised
             /\ res.call.value =
                    (res.sig = HmacHex(srv[res.src].private_key,
                                       res.id \o <<Ch(":")>> \o res.data))

====
